---- MODULE Spec2Model ----
(***************************************************************************)
(* Climate data pipeline: DataLoader -> DataValidator -> DataTransformer   *)
(* -> ClimateAnalyzer, as driven by ClimateDataPipeline.run.               *)
(*                                                                         *)
(* A table (pandas DataFrame) is a record                                  *)
(*   [col |-> name of the value column, dtype |-> dtype of the date column,*)
(*    rows |-> sequence of [date |-> cell, value |-> cell]]                *)
(* A cell is <<>> (NaN / NaT / None) or <<v>>.  Dates are day numbers.     *)
(* Measurement values are fixed-point numbers in units of 1/Scale, so that *)
(* linear interpolation over a gap of up to MaxRows - 1 rows is exact.     *)
(***************************************************************************)
EXTENDS Integers, Sequences, FiniteSets, TLC

VARIABLES pc, trace, heap, heap0, data, quality_reports, calls, arg, ret

vars == <<pc, trace, heap, heap0, data, quality_reports, calls, arg, ret>>

(***************************************************************************)
(* Bounds                                                                  *)
(***************************************************************************)
MaxRows == 3

MaxSegs == 3

(***************************************************************************)
(* Cells and fixed-point values                                            *)
(***************************************************************************)
NaN == <<>>

Some(v) == <<v>>

IsNull(c) == c = <<>>

Val(c) == c[1]

RECURSIVE Gcd(_, _)
Gcd(a, b) == IF b = 0 THEN a ELSE Gcd(b, a % b)

RECURSIVE LcmUpTo(_)
LcmUpTo(n) == IF n <= 1 THEN 1 ELSE (LcmUpTo(n - 1) * n) \div Gcd(LcmUpTo(n - 1), n)

Scale == LcmUpTo(MaxRows)

Range(s) == {s[i] : i \in DOMAIN s}

RECURSIVE SumSeq(_)
SumSeq(s) == IF s = <<>> THEN 0 ELSE Head(s) + SumSeq(Tail(s))

SetMin(S) == CHOOSE x \in S : \A y \in S : x <= y

SetMax(S) == CHOOSE x \in S : \A y \in S : y <= x

(***************************************************************************)
(* DataValidator.__init__ : thresholds                                     *)
(***************************************************************************)
rainfall_max == 500

temp_min == -10

temp_max == 55

dry_spell == 15

heat_stress_limit == 35

cold_stress_limit == 15

(***************************************************************************)
(* Columns of a table                                                      *)
(***************************************************************************)
DateCol(t) == [i \in DOMAIN t.rows |-> t.rows[i].date]

ValueCol(t) == [i \in DOMAIN t.rows |-> t.rows[i].value]

WithValueCol(t, col) ==
    [t EXCEPT !.rows = [i \in DOMAIN t.rows |-> [t.rows[i] EXCEPT !.value = col[i]]]]

NullCount(col) == Cardinality({i \in DOMAIN col : IsNull(col[i])})

\* df.isnull().sum() : nulls per column
IsnullSum(t) == [date |-> NullCount(DateCol(t)), value |-> NullCount(ValueCol(t))]

\* missing_values.any()
HasNulls(t) == IsnullSum(t).date > 0 \/ IsnullSum(t).value > 0

(***************************************************************************)
(* Series.interpolate(method='linear'), fillna(bfill), fillna(ffill)       *)
(***************************************************************************)
PrevValid(col, i) == {j \in DOMAIN col : j < i /\ ~IsNull(col[j])}

NextValid(col, i) == {j \in DOMAIN col : j > i /\ ~IsNull(col[j])}

\* pandas' default limit_direction='forward': interior gaps are filled on the
\* straight line between the neighbours (rows equally spaced), trailing NaNs
\* repeat the last valid value, leading NaNs stay NaN.
Interpolate(col) ==
    [i \in DOMAIN col |->
        IF ~IsNull(col[i]) THEN col[i]
        ELSE IF PrevValid(col, i) = {} THEN NaN
        ELSE LET p == SetMax(PrevValid(col, i))
             IN  IF NextValid(col, i) = {} THEN col[p]
                 ELSE LET n == SetMin(NextValid(col, i))
                          a == Val(col[p])
                          b == Val(col[n])
                      IN  Some(a + ((b - a) * (i - p)) \div (n - p))]

Bfill(col) ==
    [i \in DOMAIN col |->
        IF ~IsNull(col[i]) \/ NextValid(col, i) = {} THEN col[i]
        ELSE col[SetMin(NextValid(col, i))]]

Ffill(col) ==
    [i \in DOMAIN col |->
        IF ~IsNull(col[i]) \/ PrevValid(col, i) = {} THEN col[i]
        ELSE col[SetMax(PrevValid(col, i))]]

\* interpolation without the backward fill of leading NaNs
FillNoBfill(col) == Ffill(Interpolate(col))

\* validator.py 45-46, 49-50: the value column of the copy after remediation
FillValues(col) == Ffill(Bfill(Interpolate(col)))

\* rows with a missing value dropped instead of filled
CleanDropna(t) == [t EXCEPT !.rows = SelectSeq(t.rows, LAMBDA r : ~IsNull(r.value))]

\* validator.py 44-50: the copy after remediation
CleanTable(t) == WithValueCol(t, FillValues(ValueCol(t)))

(***************************************************************************)
(* DataValidator: the four checks                                          *)
(***************************************************************************)
\* validator.py 123-129
_check_missing_values(t) ==
    [status  |-> ~(IsnullSum(t).date # 0 \/ IsnullSum(t).value # 0),
     details |-> IsnullSum(t)]

ValidDates(t) == {Val(t.rows[i].date) : i \in {j \in DOMAIN t.rows : ~IsNull(t.rows[j].date)}}

\* df['date'].min() / .max() raise or yield a value that the format spec
\* '%Y-%m-%d' rejects: no row or only NaT (NaT has no strftime), an object
\* column of str (str rejects the format spec), an object column of date
\* objects holding a None (ordering a date against the NaN fill value).
DateStatsRaise(t) ==
    \/ Len(t.rows) = 0
    \/ ValidDates(t) = {}
    \/ t.dtype = "object_str"
    \/ t.dtype = "object_date" /\ IsnullSum(t).date > 0

\* validator.py 131-144
_check_date_continuity(t) ==
    LET expected_days == (SetMax(ValidDates(t)) - SetMin(ValidDates(t))) + 1
        actual_days   == Len(t.rows)
    IN  [status        |-> expected_days = actual_days,
         expected_days |-> expected_days,
         actual_days   |-> actual_days,
         missing_days  |-> expected_days - actual_days]

LowLimit(t) == IF t.col = "rainfall_mm" THEN 0 ELSE temp_min * Scale

HighLimit(t) == IF t.col = "rainfall_mm" THEN rainfall_max * Scale ELSE temp_max * Scale

\* bounds taken exclusive
InRangeExclusive(t, c) == ~IsNull(c) /\ Val(c) > LowLimit(t) /\ Val(c) < HighLimit(t)

\* (df[c] >= low) & (df[c] <= high), row by row; a comparison with NaN is False
InRange(t, c) == ~IsNull(c) /\ Val(c) >= LowLimit(t) /\ Val(c) <= HighLimit(t)

ValidValues(col) == {Val(col[i]) : i \in {j \in DOMAIN col : ~IsNull(col[j])}}

\* validator.py 146-176
_check_value_ranges(t) ==
    LET col == ValueCol(t)
    IN  [name          |-> IF t.col = "rainfall_mm" THEN "rainfall" ELSE "temperature",
         status        |-> \A i \in DOMAIN col : InRange(t, col[i]),
         min           |-> IF ValidValues(col) = {} THEN NaN ELSE Some(SetMin(ValidValues(col))),
         max           |-> IF ValidValues(col) = {} THEN NaN ELSE Some(SetMax(ValidValues(col))),
         invalid_count |-> Cardinality({i \in DOMAIN col : ~InRange(t, col[i])})]

\* validator.py 178-183
_check_data_types(t) == [status |-> t.dtype = "datetime64", details |-> t.dtype]

(***************************************************************************)
(* DataValidator: statistics and anomalies                                 *)
(***************************************************************************)
SortedValues(col) ==
    LET valid == SelectSeq(col, LAMBDA c : ~IsNull(c))
    IN  SortSeq([i \in DOMAIN valid |-> Val(valid[i])], LAMBDA a, b : a < b)

\* Series.quantile(0.95), linear interpolation between order statistics, as a
\* numerator over 20; NaN when the series has no valid value.
Quantile95x20(col) ==
    LET s == SortedValues(col)
        n == Len(s)
    IN  IF n = 0 THEN NaN
        ELSE LET pos == 19 * (n - 1)
                 lo  == (pos \div 20) + 1
                 hi  == IF lo < n THEN lo + 1 ELSE n
             IN  Some(20 * s[lo] + (s[hi] - s[lo]) * (pos % 20))

\* validator.py 185-205 (std and median are not modelled)
_calculate_statistics(t) ==
    LET col == ValueCol(t)
        s   == SortedValues(col)
    IN  IF t.col = "rainfall_mm"
        THEN [name |-> "rainfall", sum |-> SumSeq(s), n |-> Len(s), q95x20 |-> Quantile95x20(col)]
        ELSE [name |-> "temperature", sum |-> SumSeq(s), n |-> Len(s),
              extreme_days |-> Cardinality({i \in DOMAIN col :
                                  ~IsNull(col[i]) /\ Val(col[i]) > heat_stress_limit * Scale})]

\* dry_days = df['rainfall_mm'] < 1
IsDry(c) == ~IsNull(c) /\ Val(c) < 1 * Scale

\* validator.py 256-263: one iteration of the loop, state <<current_spell, spell_lengths>>
DrySpellStepBoundary(st, is_dry) ==
    IF is_dry THEN <<st[1] + 1, st[2]>>
    ELSE IF st[1] > dry_spell THEN <<0, Append(st[2], st[1])>>
    ELSE <<0, st[2]>>

DrySpellStep(st, is_dry) ==
    IF is_dry THEN <<st[1] + 1, st[2]>>
    ELSE IF st[1] >= dry_spell THEN <<0, Append(st[2], st[1])>>
    ELSE <<0, st[2]>>

\* validator.py 256-263: the loop over rows lo..hi, in row order.  The rows
\* are folded in two halves, the state after the first half being computed
\* before the second half starts.
RECURSIVE DrySpellLoop(_, _, _, _)
DrySpellLoop(col, lo, hi, st) ==
    IF lo > hi THEN st
    ELSE IF lo = hi THEN DrySpellStep(st, IsDry(col[lo]))
    ELSE CHOOSE r \in {DrySpellLoop(col, ((lo + hi) \div 2) + 1, hi, s) :
                          s \in {DrySpellLoop(col, lo, (lo + hi) \div 2, st)}} : TRUE

\* validator.py 250-268
_find_dry_spells(t) ==
    LET st == DrySpellLoop(ValueCol(t), 1, Len(t.rows), <<0, <<>>>>)
    IN  IF st[1] >= dry_spell THEN Append(st[2], st[1]) ELSE st[2]

RECURSIVE SeqMax(_)
SeqMax(s) == IF Len(s) = 1 THEN s[1]
             ELSE LET m == SeqMax(Tail(s)) IN IF s[1] >= m THEN s[1] ELSE m

\* validator.py 207-248
_detect_anomalies(t) ==
    LET col == ValueCol(t)
    IN  IF t.col = "rainfall_mm"
        THEN LET threshold  == Quantile95x20(col)
                 extreme    == SelectSeq(t.rows, LAMBDA r :
                                  ~IsNull(r.value) /\ ~IsNull(threshold)
                                  /\ 20 * Val(r.value) > Val(threshold))
                 dry_spells == _find_dry_spells(t)
             IN  [name |-> "rainfall",
                  extreme_events |-> [count |-> Len(extreme), threshold |-> threshold,
                                      dates |-> [i \in DOMAIN extreme |-> extreme[i].date]],
                  dry_spells |-> [count |-> Len(dry_spells),
                                  max_duration |-> IF dry_spells # <<>> THEN SeqMax(dry_spells) ELSE 0,
                                  spells |-> dry_spells]]
        ELSE LET heat == SelectSeq(t.rows, LAMBDA r :
                            ~IsNull(r.value) /\ Val(r.value) > heat_stress_limit * Scale)
                 cold == SelectSeq(t.rows, LAMBDA r :
                            ~IsNull(r.value) /\ Val(r.value) < cold_stress_limit * Scale)
             IN  [name |-> "temperature",
                  heat_stress_days |-> [count |-> Len(heat),
                                        dates |-> [i \in DOMAIN heat |-> heat[i].date]],
                  cold_stress_days |-> [count |-> Len(cold),
                                        dates |-> [i \in DOMAIN cold |-> cold[i].date]]]

(***************************************************************************)
(* DataValidator._validate_dataframe                                       *)
(***************************************************************************)
\* validator.py 99-107, with the data_types check left out (mutant)
FailedChecksNoTypes(checks) ==
    (IF ~checks.missing_values.status THEN <<"missing_values">> ELSE <<>>)
    \o (IF ~checks.date_continuity.status THEN <<"date_continuity">> ELSE <<>>)
    \o (IF ~checks.value_ranges.status THEN <<"value_ranges">> ELSE <<>>)

\* validator.py 99-107
FailedChecks(checks) ==
    (IF ~checks.missing_values.status THEN <<"missing_values">> ELSE <<>>)
    \o (IF ~checks.date_continuity.status THEN <<"date_continuity">> ELSE <<>>)
    \o (IF ~checks.value_ranges.status THEN <<"value_ranges">> ELSE <<>>)
    \o (IF ~checks.data_types.status THEN <<"data_types">> ELSE <<>>)

ErrorReport(name) ==
    [dataset_name |-> name, validation_status |-> "ERROR"]

\* validator.py 66-121
_validate_dataframe(t, name) ==
    IF DateStatsRaise(t) THEN ErrorReport(name)
    ELSE LET checks == [missing_values  |-> _check_missing_values(t),
                        date_continuity |-> _check_date_continuity(t),
                        value_ranges    |-> _check_value_ranges(t),
                        data_types      |-> _check_data_types(t)]
             failed_checks == FailedChecks(checks)
         IN  [dataset_name      |-> name,
              total_records     |-> Len(t.rows),
              date_range        |-> <<SetMin(ValidDates(t)), SetMax(ValidDates(t))>>,
              checks            |-> checks,
              statistics        |-> _calculate_statistics(t),
              anomalies         |-> _detect_anomalies(t),
              validation_status |-> IF failed_checks # <<>> THEN "FAILED" ELSE "PASSED",
              failed_checks     |-> failed_checks]

(***************************************************************************)
(* DataValidator.validate_data                                             *)
(***************************************************************************)
EmptyMap == <<>>

Put(f, k, v) == [x \in DOMAIN f \cup {k} |-> IF x = k THEN v ELSE f[x]]

\* keys in load_all's insertion order (data_loader.py 23-28)
KeyOrder ==
    <<"maharashtra_precipitation", "maharashtra_temperature",
      "madhya_pradesh_precipitation", "madhya_pradesh_temperature">>

KeysOf(d) == SelectSeq(KeyOrder, LAMBDA k : k \in DOMAIN d)

\* df_copy = df  (no copy: the caller's object is written through)
CopyAlias(h, id) == id

\* validator.py 29: df_copy = df.copy() is a new object
CopyTarget(h, id) == Len(h) + 1

Store(h, id, t) == IF id = Len(h) + 1 THEN Append(h, t) ELSE [h EXCEPT ![id] = t]

\* the initial report is kept, line 53 missing
ReportInitialOnly(t, cleaned, name) == _validate_dataframe(t, name)

\* validator.py 32-53: the initial report, replaced by the re-validation
\* report when the copy had missing values
ReportFor(t, cleaned, name) ==
    IF HasNulls(t) THEN _validate_dataframe(cleaned, name) ELSE _validate_dataframe(t, name)

\* validator.py 59 left out: the mapping keeps the caller's table
KeepEntry(d, key, id) == d

\* validator.py 59: data[key] = df_copy
ReplaceEntry(d, key, id) == [d EXCEPT ![key] = id]

\* validator.py 25-59: one iteration of the loop over data.items()
ValidateOne(st, key) ==
    LET id      == st.data[key]
        t       == st.heap[id]
        target  == CopyTarget(st.heap, id)
        cleaned == IF HasNulls(t) THEN CleanTable(t) ELSE t
        report  == ReportFor(t, cleaned, key)
    IN  [heap    |-> Store(st.heap, target, cleaned),
         data    |-> ReplaceEntry(st.data, key, target),
         reports |-> Put(st.reports, key, report)]

RECURSIVE ValidateLoop(_, _, _)
ValidateLoop(st, keys, n) ==
    IF n = 0 \/ keys = <<>> THEN st
    ELSE ValidateLoop(ValidateOne(st, Head(keys)), Tail(keys), n - 1)

\* validator.py 19-64.  failAt = number of datasets handled before a
\* computation inside the loop raises (Len(KeysOf(data)) when none does).
validate_data(failAt) ==
    LET keys == KeysOf(data)
        st   == ValidateLoop([heap |-> heap, data |-> data, reports |-> quality_reports],
                             keys, failAt)
        ok   == DOMAIN data # {} /\ failAt = Len(keys)
    IN  /\ heap' = st.heap
        /\ data' = st.data
        /\ quality_reports' = st.reports
        /\ calls' = Append(calls, [result  |-> IF ok THEN "returned" ELSE "raised",
                                   input   |-> data,
                                   data    |-> st.data,
                                   tables  |-> [k \in DOMAIN st.data |-> st.heap[st.data[k]]],
                                   reports |-> st.reports])

(***************************************************************************)
(* A caller of DataValidator: validate a mapping, then feed the cleaned    *)
(* mapping back (SpecValidate)                                             *)
(***************************************************************************)
DateAlphabet == {NaN} \cup {Some(d) : d \in 1..3}

ValueAlphabet(col) ==
    IF col = "rainfall_mm" THEN {NaN, Some(10 * Scale), Some(600 * Scale)}
    ELSE {NaN, Some(40 * Scale), Some(60 * Scale)}

DTypes == {"datetime64", "object_date", "object_str"}

Columns == {"rainfall_mm", "mean"}

\* date columns in file order: the valid dates never decrease (the validator
\* reads the column only through min, max and the null count), NaT anywhere
Chronological(d) ==
    \A i, j \in DOMAIN d : (i < j /\ ~IsNull(d[i]) /\ ~IsNull(d[j])) => Val(d[i]) <= Val(d[j])

MakeTable(c, dt, d, v) ==
    [col |-> c, dtype |-> dt, rows |-> [i \in DOMAIN d |-> [date |-> d[i], value |-> v[i]]]]

KeyFor(t) == IF t.col = "rainfall_mm" THEN KeyOrder[1] ELSE KeyOrder[2]

VInit ==
    /\ pc = "v_start"
    /\ trace = <<>>
    /\ \/ heap = <<>> /\ data = EmptyMap
       \/ \E n \in 0..MaxRows, c \in Columns, dt \in DTypes :
            \E d \in [1..n -> DateAlphabet], v \in [1..n -> ValueAlphabet(c)] :
               /\ Chronological(d)
               /\ heap = <<MakeTable(c, dt, d, v)>>
               /\ data = [k \in {KeyFor(heap[1])} |-> 1]
    /\ heap0 = heap
    /\ quality_reports = EmptyMap
    /\ calls = <<>>
    /\ arg = NaN
    /\ ret = NaN

\* validate_data(data) on a non-empty mapping
ValidateData ==
    /\ pc = "v_start"
    /\ DOMAIN data # {}
    /\ validate_data(Len(KeysOf(data)))
    /\ pc' = "v_once"
    /\ UNCHANGED <<trace, heap0, arg, ret>>

\* validator.py 22-23: an empty mapping raises
ValidateEmpty ==
    /\ pc = "v_start"
    /\ DOMAIN data = {}
    /\ validate_data(0)
    /\ pc' = "v_raised"
    /\ UNCHANGED <<trace, heap0, arg, ret>>

\* validate_data(data) again on the mapping the first call left
ValidateAgain ==
    /\ pc = "v_once"
    /\ validate_data(Len(KeysOf(data)))
    /\ pc' = "v_twice"
    /\ UNCHANGED <<trace, heap0, arg, ret>>

VNext == ValidateData \/ ValidateEmpty \/ ValidateAgain

SpecValidate == VInit /\ [][VNext]_vars

(***************************************************************************)
(* Properties of the validator (SpecValidate)                              *)
(***************************************************************************)
Returned == {c \in DOMAIN calls : calls[c].result = "returned"}

\* the table object the caller passed to call c under key k
InputTable(c, k) == IF c = 1 THEN heap0[calls[c].input[k]] ELSE calls[c - 1].tables[k]

NoNullCell(t) == \A i \in DOMAIN t.rows : ~IsNull(t.rows[i].date) /\ ~IsNull(t.rows[i].value)

CountMatchesSpan(t) ==
    \E lo, hi \in ValidDates(t) :
        /\ \A d \in ValidDates(t) : lo <= d /\ d <= hi
        /\ hi - lo + 1 = Len(t.rows)

AllInRange(t) ==
    \A i \in DOMAIN t.rows :
        /\ ~IsNull(t.rows[i].value)
        /\ IF t.col = "rainfall_mm"
           THEN 0 <= Val(t.rows[i].value) /\ Val(t.rows[i].value) <= 500 * Scale
           ELSE (-10) * Scale <= Val(t.rows[i].value) /\ Val(t.rows[i].value) <= 55 * Scale

FailingChecks(r) ==
    {n \in {"missing_values", "date_continuity", "value_ranges", "data_types"} :
        ~r.checks[n].status}

\* C3: every report has validation_status PASSED, FAILED or ERROR; ERROR iff
\* computing the report raises; otherwise FAILED iff at least one of the four
\* checks fails, failed_checks listing exactly the failing checks, PASSED iff
\* all four pass; the four check results depend on the table alone, whatever
\* statistics and anomalies the report carries.
C3_StatusFromChecks ==
    \A c \in Returned : \A k \in DOMAIN calls[c].reports :
        LET r == calls[c].reports[k]
            t == calls[c].tables[k]
        IN  /\ r.validation_status \in {"PASSED", "FAILED", "ERROR"}
            /\ (r.validation_status = "ERROR") <=> DateStatsRaise(t)
            /\ r.validation_status # "ERROR" =>
                 /\ r.checks.missing_values.status = NoNullCell(t)
                 /\ r.checks.date_continuity.status = CountMatchesSpan(t)
                 /\ r.checks.value_ranges.status = AllInRange(t)
                 /\ r.checks.data_types.status = (t.dtype = "datetime64")
                 /\ (r.validation_status = "FAILED") <=> (FailingChecks(r) # {})
                 /\ (r.validation_status = "PASSED") <=> (FailingChecks(r) = {})
                 /\ Range(r.failed_checks) = FailingChecks(r)
                 /\ Len(r.failed_checks) = Cardinality(FailingChecks(r))

\* a FAILED report whose only failing check is data_types, with an anomaly
\* (heat stress days) recorded beside it
C3_Witness ==
    /\ pc = "v_once"
    /\ \E k \in DOMAIN quality_reports :
        /\ quality_reports[k].validation_status = "FAILED"
        /\ quality_reports[k].failed_checks = <<"data_types">>
        /\ quality_reports[k].anomalies.name = "temperature"
        /\ quality_reports[k].anomalies.heat_stress_days.count > 0

\* what linear interpolation, then bfill, then ffill leave in row i of a column
FilledAsSpecified(orig, new, i) ==
    LET before == {j \in DOMAIN orig : j < i /\ ~IsNull(orig[j])}
        after  == {j \in DOMAIN orig : j > i /\ ~IsNull(orig[j])}
    IN  IF ~IsNull(orig[i]) THEN new[i] = orig[i]
        ELSE IF before = {} /\ after = {} THEN IsNull(new[i])
        ELSE IF before = {} THEN new[i] = orig[SetMin(after)]
        ELSE IF after = {} THEN new[i] = orig[SetMax(before)]
        ELSE LET p == SetMax(before)
                 n == SetMin(after)
             IN  /\ ~IsNull(new[i])
                 /\ (Val(new[i]) - Val(orig[p])) * (n - p) = (Val(orig[n]) - Val(orig[p])) * (i - p)

\* C4: for a table with nulls the value column is linearly interpolated, then
\* backward-filled, then forward-filled; the report returned is the report of
\* re-validating that result, whose missing_values check passes iff no null
\* remains in any column; if the value column had a non-null value and the
\* date column no null, the returned missing_values check passes.
C4_Remediation ==
    \A c \in Returned : \A k \in DOMAIN calls[c].input :
        LET t0 == InputTable(c, k)
            t1 == calls[c].tables[k]
            r  == calls[c].reports[k]
        IN  HasNulls(t0) =>
              /\ DOMAIN t1.rows = DOMAIN t0.rows
              /\ \A i \in DOMAIN t0.rows : FilledAsSpecified(ValueCol(t0), ValueCol(t1), i)
              /\ r = _validate_dataframe(t1, k)
              /\ r.validation_status # "ERROR" =>
                   /\ r.checks.missing_values.status = NoNullCell(t1)
                   /\ ((\E i \in DOMAIN t0.rows : ~IsNull(t0.rows[i].value))
                         /\ (\A i \in DOMAIN t0.rows : ~IsNull(t0.rows[i].date)))
                      => r.checks.missing_values.status

\* a table with an interior missing value between two different values was
\* remediated and its report passes the missing_values check
C4_Witness ==
    /\ pc = "v_once"
    /\ \E k \in DOMAIN data :
        /\ \E i \in 2..(Len(heap0[1].rows) - 1) :
              /\ IsNull(heap0[1].rows[i].value)
              /\ ~IsNull(heap0[1].rows[i - 1].value)
              /\ ~IsNull(heap0[1].rows[i + 1].value)
              /\ heap0[1].rows[i - 1].value # heap0[1].rows[i + 1].value
        /\ quality_reports[k].validation_status # "ERROR"
        /\ quality_reports[k].checks.missing_values.status

\* C6: the validator never drops rows: the table left in data[key] has the
\* same number of rows and the same dates in the same order as the table
\* passed in, and every non-ERROR report's total_records is that row count.
C6_NoRowDropped ==
    \A c \in Returned : \A k \in DOMAIN calls[c].input :
        LET t0 == InputTable(c, k)
            t1 == heap[data[k]]
            r  == calls[c].reports[k]
        IN  /\ k \in DOMAIN calls[c].data
            /\ Len(calls[c].tables[k].rows) = Len(t0.rows)
            /\ DateCol(calls[c].tables[k]) = DateCol(t0)
            /\ c = Len(calls) => (Len(t1.rows) = Len(t0.rows) /\ DateCol(t1) = DateCol(t0))
            /\ r.validation_status # "ERROR" => r.total_records = Len(t0.rows)

\* a table with a missing value in its first row came back with all its rows
C6_Witness ==
    /\ pc = "v_once"
    /\ Len(heap0[1].rows) = MaxRows
    /\ IsNull(heap0[1].rows[1].value)
    /\ \E k \in DOMAIN data :
        /\ Len(heap[data[k]].rows) = MaxRows
        /\ quality_reports[k].validation_status # "ERROR"
        /\ quality_reports[k].total_records = MaxRows

\* some calendar day strictly between the first and the last date has no row
HasInternalGap(t) ==
    \E d \in SetMin(ValidDates(t))..SetMax(ValidDates(t)) : d \notin ValidDates(t)

\* C7: the date_continuity check fails (status false, missing_days > 0) for
\* every table in which a calendar day strictly between the minimum and the
\* maximum date has no row, and passes when (max - min).days + 1 equals the
\* row count.
C7_GapAlwaysFlagged ==
    \A c \in Returned : \A k \in DOMAIN calls[c].reports :
        LET r == calls[c].reports[k]
            t == calls[c].tables[k]
        IN  r.validation_status # "ERROR" =>
              /\ HasInternalGap(t) =>
                    (~r.checks.date_continuity.status
                        /\ r.checks.date_continuity.missing_days > 0)
              /\ CountMatchesSpan(t) => r.checks.date_continuity.status

\* C10: feeding the cleaned mapping back through validate_data yields, for
\* every dataset, the same validation_status and the same check results as the
\* first call, and leaves the cleaned tables' values unchanged.
C10_RevalidationStable ==
    pc = "v_twice" =>
        /\ calls[2].result = "returned"
        /\ DOMAIN calls[2].reports = DOMAIN calls[1].reports
        /\ \A k \in DOMAIN calls[1].reports :
            LET r1 == calls[1].reports[k]
                r2 == calls[2].reports[k]
            IN  /\ r2.validation_status = r1.validation_status
                /\ r1.validation_status # "ERROR" =>
                     (r2.checks = r1.checks /\ r2.failed_checks = r1.failed_checks)
                /\ ValueCol(calls[2].tables[k]) = ValueCol(calls[1].tables[k])
                /\ ValueCol(heap[calls[1].data[k]]) = ValueCol(calls[1].tables[k])

\* a table whose missing values were interpolated in the first call was
\* validated a second time and passed both times
C10_Witness ==
    /\ pc = "v_twice"
    /\ \E k \in DOMAIN calls[1].input :
        /\ HasNulls(heap0[calls[1].input[k]])
        /\ heap0[calls[1].input[k]] # calls[1].tables[k]
        /\ calls[1].reports[k].validation_status = "PASSED"
        /\ calls[2].reports[k].validation_status = "PASSED"

(***************************************************************************)
(* _check_value_ranges applied to one table (SpecRange)                    *)
(***************************************************************************)
Idle ==
    /\ trace = <<>>
    /\ heap = <<>>
    /\ heap0 = <<>>
    /\ data = EmptyMap
    /\ quality_reports = EmptyMap
    /\ calls = <<>>

\* values at, just inside and just outside the thresholds
RangeAlphabet(col) ==
    IF col = "rainfall_mm"
    THEN {NaN, Some(-1), Some(0), Some(250 * Scale), Some(500 * Scale), Some(500 * Scale + 1)}
    ELSE {NaN, Some((-10) * Scale - 1), Some((-10) * Scale), Some(20 * Scale),
          Some(55 * Scale), Some(55 * Scale + 1)}

DailyDates(n) == [i \in 1..n |-> Some(i)]

RInit ==
    /\ pc = "r_start"
    /\ Idle
    /\ \E n \in 0..MaxRows, c \in Columns :
         \E v \in [1..n -> RangeAlphabet(c)] :
            arg = MakeTable(c, "datetime64", DailyDates(n), v)
    /\ ret = NaN

CheckValueRanges ==
    /\ pc = "r_start"
    /\ ret' = _check_value_ranges(arg)
    /\ pc' = "r_done"
    /\ UNCHANGED <<trace, heap, heap0, data, quality_reports, calls, arg>>

RNext == CheckValueRanges

SpecRange == RInit /\ [][RNext]_vars

\* row i breaks the range: its value is missing or outside the closed interval
ViolatesRange(t, i) ==
    LET c == t.rows[i].value
    IN  \/ IsNull(c)
        \/ t.col = "rainfall_mm" /\ (Val(c) < 0 \/ Val(c) > 500 * Scale)
        \/ t.col = "mean" /\ (Val(c) < (-10) * Scale \/ Val(c) > 55 * Scale)

\* C8: the value-range check passes for a rainfall table iff every value v
\* has 0 <= v <= 500 and for a temperature table iff every value has
\* -10 <= v <= 55, bounds inclusive; a null counts as out of range and
\* invalid_count is the number of rows violating the range.
C8_RangeCheck ==
    pc = "r_done" =>
        /\ ret.name = (IF arg.col = "rainfall_mm" THEN "rainfall" ELSE "temperature")
        /\ ret.status = (\A i \in DOMAIN arg.rows : ~ViolatesRange(arg, i))
        /\ ret.invalid_count = Cardinality({i \in DOMAIN arg.rows : ViolatesRange(arg, i)})

\* a table holding both bounds passes, none of its rows counted invalid
C8_Witness ==
    /\ pc = "r_done"
    /\ arg.col = "mean"
    /\ \E i, j \in DOMAIN arg.rows :
          /\ arg.rows[i].value = Some((-10) * Scale)
          /\ arg.rows[j].value = Some(55 * Scale)
    /\ ret.status
    /\ ret.invalid_count = 0

(***************************************************************************)
(* Dry spells of one rainfall table (SpecDry)                              *)
(***************************************************************************)
\* a segment is a run of equal cells: rainfall 0 mm, exactly 1 mm, or NaN
SegCells == {Some(0), Some(1 * Scale), NaN}

SegLens == {1, 14, 15, 20}

Segments == SegCells \X SegLens

RECURSIVE Expand(_)
Expand(segs) ==
    IF segs = <<>> THEN <<>>
    ELSE [i \in 1..Head(segs)[2] |-> Head(segs)[1]] \o Expand(Tail(segs))

RainTable(v) == MakeTable("rainfall_mm", "datetime64", DailyDates(Len(v)), v)

\* one year of daily data with a single 20-day span below 1 mm
YearScenario == RainTable(Expand(<<<<Some(12 * Scale), 100>>, <<Some(0), 20>>, <<Some(12 * Scale), 245>>>>))

DInit ==
    /\ pc = "d_start"
    /\ Idle
    /\ \/ \E n \in 0..MaxSegs : \E segs \in [1..n -> Segments] : arg = RainTable(Expand(segs))
       \/ arg = YearScenario
    /\ ret = NaN

\* validator.py 217, 225-229: the dry_spells entry of the anomalies
FindDrySpells ==
    /\ pc = "d_start"
    /\ ret' = _detect_anomalies(arg).dry_spells
    /\ pc' = "d_done"
    /\ UNCHANGED <<trace, heap, heap0, data, quality_reports, calls, arg>>

DNext == FindDrySpells

SpecDry == DInit /\ [][DNext]_vars

DryRow(t, i) ==
    i \in DOMAIN t.rows /\ ~IsNull(t.rows[i].value) /\ Val(t.rows[i].value) < Scale

RunStarts(t) == {i \in DOMAIN t.rows : DryRow(t, i) /\ ~DryRow(t, i - 1)}

RunEnds(t) == {i \in DOMAIN t.rows : DryRow(t, i) /\ ~DryRow(t, i + 1)}

\* length of the maximal dry run that starts in row s
RunLen(t, s) == SetMin({e \in RunEnds(t) : e >= s}) - s + 1

LongRuns(t) == {s \in RunStarts(t) : RunLen(t, s) >= 15}

\* C9: the spells are, in chronological order, exactly the lengths of the
\* maximal runs of consecutive rows with rainfall < 1 mm that are at least 15
\* rows long, a run reaching the last row included; count is their number and
\* max_duration the longest (0 when none); one 20-day span in a year gives
\* count 1 and max_duration 20.
C9_DrySpells ==
    pc = "d_done" =>
        /\ Len(ret.spells) = Cardinality(LongRuns(arg))
        /\ \A s \in LongRuns(arg) :
              ret.spells[Cardinality({x \in LongRuns(arg) : x <= s})] = RunLen(arg, s)
        /\ ret.count = Cardinality(LongRuns(arg))
        /\ ret.max_duration =
              (IF LongRuns(arg) = {} THEN 0 ELSE SetMax({RunLen(arg, s) : s \in LongRuns(arg)}))
        /\ arg = YearScenario => (ret.count = 1 /\ ret.max_duration = 20)

\* two reported spells, the first exactly 15 rows long and ended by a 1 mm
\* day, the second reaching the last row
C9_Witness ==
    /\ pc = "d_done"
    /\ Len(ret.spells) = 2
    /\ ret.spells[1] = 15
    /\ DryRow(arg, Len(arg.rows))

(***************************************************************************)
(* DataLoader.load_all                                                     *)
(***************************************************************************)
\* data_loader.py 16-20: the files in the order they are read
FileOrder ==
    <<"MH_precipitation.csv", "MH_temperature.csv",
      "MP_precipitation.csv", "MP_temperature.csv">>

FileColumn(i) == IF i \in {1, 3} THEN "rainfall_mm" ELSE "mean"

\* what a file can hold: rows as pd.read_csv / to_datetime / to_numeric
\* deliver them (the date column always datetime64), or nothing readable
FileTables(c) ==
    LET lo == Some((IF c = "rainfall_mm" THEN 10 ELSE 20) * Scale)
        hi == Some((IF c = "rainfall_mm" THEN 30 ELSE 40) * Scale)
        bad == Some(600 * Scale)
    IN  {MakeTable(c, "datetime64", DailyDates(3), <<lo, hi, lo>>),
         MakeTable(c, "datetime64", DailyDates(3), <<lo, NaN, hi>>),
         MakeTable(c, "datetime64", DailyDates(1), <<bad>>),
         MakeTable(c, "datetime64", <<>>, <<>>)}

\* _load_csv raises: the file does not exist (line 44), read_csv fails
\* (line 47), or the date column does not parse (line 53)
Unreadable == {"missing", "malformed", "bad_date"}

FileStates(i) ==
    {[status |-> "ok", table |-> t] : t \in FileTables(FileColumn(i))}
    \cup {[status |-> u, table |-> MakeTable(FileColumn(i), "datetime64", <<>>, <<>>)] :
             u \in Unreadable}

FirstUnreadable(files) == SetMin({i \in DOMAIN files : files[i].status # "ok"})

\* data_loader.py 11-37 with _load_csv 39-69: all four tables, or the error
\* raised for the first file that cannot be loaded
load_all(files) ==
    IF \E i \in DOMAIN files : files[i].status # "ok"
    THEN [raised |-> TRUE, file |-> FileOrder[FirstUnreadable(files)], tables |-> <<>>]
    ELSE [raised |-> FALSE, file |-> "", tables |-> [i \in DOMAIN files |-> files[i].table]]

(***************************************************************************)
(* ClimateDataPipeline.run                                                 *)
(***************************************************************************)
Init ==
    /\ pc = "start"
    /\ trace = <<>>
    /\ heap = <<>>
    /\ heap0 = <<>>
    /\ data = EmptyMap
    /\ quality_reports = EmptyMap
    /\ calls = <<>>
    /\ arg = NaN
    /\ ret = NaN

Call(stage) == <<stage, "call">>

Return(stage) == <<stage, "return">>

Raise(stage) == <<stage, "raise">>

\* pipeline.py 67-71: the except clause of run
RunRaises(stage, names) ==
    /\ pc' = "raised"
    /\ ret' = [raised |-> TRUE, stage |-> stage, names |-> names, validation_reports |-> EmptyMap]

\* pipeline.py 32
Load ==
    /\ pc = "start"
    /\ \E f1 \in FileStates(1), f2 \in FileStates(2), f3 \in FileStates(3), f4 \in FileStates(4) :
           LET r == load_all(<<f1, f2, f3, f4>>)
           IN  IF r.raised
               THEN /\ trace' = trace \o <<Call("load"), Raise("load")>>
                    /\ RunRaises("load", {r.file})
                    /\ UNCHANGED <<heap, heap0, data>>
               ELSE /\ trace' = trace \o <<Call("load"), Return("load")>>
                    /\ heap' = r.tables
                    /\ heap0' = r.tables
                    /\ data' = [k \in Range(KeyOrder) |-> CHOOSE i \in 1..4 : KeyOrder[i] = k]
                    /\ pc' = "loaded"
                    /\ ret' = ret
    /\ UNCHANGED <<quality_reports, calls, arg>>

\* pipeline.py 37; a computation inside validate_data may raise after failAt
\* datasets (validator.py 63-64)
Validate ==
    /\ pc = "loaded"
    /\ \E failAt \in 0..Len(KeysOf(data)) :
        /\ validate_data(failAt)
        /\ IF failAt = Len(KeysOf(data))
           THEN /\ trace' = trace \o <<Call("validate"), Return("validate")>>
                /\ pc' = "validated"
                /\ ret' = ret
           ELSE /\ trace' = trace \o <<Call("validate"), Raise("validate")>>
                /\ RunRaises("validate", {})
    /\ UNCHANGED <<heap0, arg>>

\* the status test dropped: no dataset is ever reported as failed
NoFailedValidations(reports) == {}

\* pipeline.py 40-43
failed_validations(reports) ==
    {name \in DOMAIN reports : reports[name].validation_status = "FAILED"}

\* pipeline.py 44-47
CheckStatus ==
    /\ pc = "validated"
    /\ IF failed_validations(quality_reports) # {}
       THEN RunRaises("check", failed_validations(quality_reports))
       ELSE pc' = "checked" /\ ret' = ret
    /\ UNCHANGED <<trace, heap, heap0, data, quality_reports, calls, arg>>

\* pipeline.py 52: transform(raw_data) returns, or raises (transformer.py 34-35)
Transform ==
    /\ pc = "checked"
    /\ arg' = data
    /\ \/ /\ trace' = trace \o <<Call("transform"), Return("transform")>>
          /\ pc' = "transformed"
          /\ ret' = ret
       \/ /\ trace' = trace \o <<Call("transform"), Raise("transform")>>
          /\ RunRaises("transform", {})
    /\ UNCHANGED <<heap, heap0, data, quality_reports, calls>>

\* pipeline.py 57-65: analyze(processed_data) returns and run returns its
\* result, or analyze raises
Analyze ==
    /\ pc = "transformed"
    /\ \/ /\ trace' = trace \o <<Call("analyze"), Return("analyze")>>
          /\ pc' = "returned"
          /\ ret' = [raised |-> FALSE, stage |-> "", names |-> {},
                    validation_reports |-> quality_reports]
       \/ /\ trace' = trace \o <<Call("analyze"), Raise("analyze")>>
          /\ RunRaises("analyze", {})
    /\ UNCHANGED <<heap, heap0, data, quality_reports, calls, arg>>

Next == Load \/ Validate \/ CheckStatus \/ Transform \/ Analyze

Spec == Init /\ [][Next]_vars

(***************************************************************************)
(* Properties of ClimateDataPipeline.run (Spec)                            *)
(***************************************************************************)
StageOrder == <<"load", "validate", "transform", "analyze">>

Invoked(stage) == \E i \in DOMAIN trace : trace[i] = <<stage, "call">>

ReturnedFrom(stage) == \E i \in DOMAIN trace : trace[i] = <<stage, "return">>

SomeReportFailed ==
    \E k \in DOMAIN quality_reports : quality_reports[k].validation_status = "FAILED"

\* C1: the stages run in the order load, validate, transform, analyze, each at
\* most once and each only after the previous one has returned; transform is
\* invoked only if validation returned and no report is FAILED; if a report is
\* FAILED or a stage raises, no later stage is invoked and run ends by raising
\* instead of returning a result.
C1_StageOrder ==
    /\ Len(trace) % 2 = 0
    /\ Len(trace) <= 2 * Len(StageOrder)
    /\ \A i \in 1..(Len(trace) \div 2) :
          /\ trace[2 * i - 1] = <<StageOrder[i], "call">>
          /\ trace[2 * i] \in {<<StageOrder[i], "return">>, <<StageOrder[i], "raise">>}
          /\ trace[2 * i][2] = "raise" => (2 * i = Len(trace) /\ pc = "raised")
    /\ Invoked("transform") => (ReturnedFrom("validate") /\ ~SomeReportFailed)
    /\ (SomeReportFailed /\ ReturnedFrom("validate") /\ pc # "validated") =>
          (pc = "raised" /\ ~Invoked("transform") /\ ~Invoked("analyze"))
    /\ pc = "raised" => ret.raised
    /\ pc = "returned" =>
          /\ ~ret.raised
          /\ ~SomeReportFailed
          /\ \A i \in DOMAIN StageOrder : ReturnedFrom(StageOrder[i])

\* run raised after validation reported a FAILED dataset, transform and
\* analyze never having been invoked
C1_Witness ==
    /\ pc = "raised"
    /\ ret.stage = "check"
    /\ SomeReportFailed
    /\ trace = <<<<"load", "call">>, <<"load", "return">>,
                 <<"validate", "call">>, <<"validate", "return">>>>

\* C2: every dataset handed to the Transformer either passed all validation
\* checks (report PASSED) or has a report carrying FAILED; a dataset whose
\* validation could not be completed never reaches transform without the
\* FAILED flag.
C2_NoUnflaggedData ==
    Invoked("transform") =>
        \A k \in DOMAIN arg :
            /\ k \in DOMAIN quality_reports
            /\ quality_reports[k].validation_status \in {"PASSED", "FAILED"}

\* the table as interpolation, bfill and ffill of its value column leave it
CleanedFrom(t0, t1) ==
    /\ t1.col = t0.col
    /\ t1.dtype = t0.dtype
    /\ DateCol(t1) = DateCol(t0)
    /\ \A i \in DOMAIN t0.rows :
          IF HasNulls(t0) THEN FilledAsSpecified(ValueCol(t0), ValueCol(t1), i)
          ELSE t1.rows[i] = t0.rows[i]

\* C5: after validate_data(data) returns, every data[key] is the cleaned copy,
\* this mapping is what run passes to transform, and the table objects the
\* caller put in the mapping are left unmodified.
C5_CleanedCopies ==
    /\ \A id \in DOMAIN heap0 : id \in DOMAIN heap /\ heap[id] = heap0[id]
    /\ ReturnedFrom("validate") =>
          \A k \in DOMAIN calls[1].input :
              /\ data[k] \notin DOMAIN heap0
              /\ CleanedFrom(heap0[calls[1].input[k]], heap[data[k]])
    /\ Invoked("transform") => arg = data

\* transform was handed the mapping whose rainfall table had a missing value
\* interpolated, the loaded table still holding the missing value
C5_Witness ==
    /\ Invoked("transform")
    /\ \E k \in DOMAIN arg :
          /\ HasNulls(heap0[calls[1].input[k]])
          /\ ~HasNulls(heap[arg[k]])
          /\ heap[calls[1].input[k]] = heap0[calls[1].input[k]]

(***************************************************************************)
(* DataTransformer (transformer.py)                                        *)
(*                                                                         *)
(* Calendar dates are records [y, m, d]; .dt.year and .dt.month read the   *)
(* fields.  A dataset key is the sequence of the words that '_' separates  *)
(* in the Python string: 'maharashtra_precipitation' is                    *)
(* <<"maharashtra", "precipitation">>.  A mean is an exact fraction        *)
(* [num, den] in lowest terms; the mean of no values is NaN.               *)
(***************************************************************************)
MaxYears == 2

Abs(x) == IF x < 0 THEN -x ELSE x

Rat(n, d) ==
    LET g == Gcd(Abs(n), d)
    IN  [num |-> n \div g, den |-> d \div g]

RECURSIVE SumRange(_, _, _)
SumRange(s, lo, hi) ==
    IF lo > hi THEN 0
    ELSE IF lo = hi THEN s[lo]
    ELSE SumRange(s, lo, (lo + hi) \div 2) + SumRange(s, ((lo + hi) \div 2) + 1, hi)

\* Series.mean(): NaN cells are skipped; NaN when nothing is left
MeanCell(cells) ==
    LET valid == SelectSeq(cells, LAMBDA c : ~IsNull(c))
        nums  == [i \in DOMAIN valid |-> Val(valid[i])]
    IN  IF valid = <<>> THEN NaN
        ELSE Some(Rat(SumRange(nums, 1, Len(nums)), Len(nums)))

IsLeap(y) == (y % 4 = 0 /\ y % 100 # 0) \/ y % 400 = 0

DaysInMonth(y, m) ==
    IF m = 2 THEN (IF IsLeap(y) THEN 29 ELSE 28)
    ELSE IF m \in {4, 6, 9, 11} THEN 30 ELSE 31

Date(y, m, d) == [y |-> y, m |-> m, d |-> d]

\* months counted from year 0, so that consecutive months are consecutive
MonthIndex(dt) == dt.y * 12 + (dt.m - 1)

\* the label of a month bin under freq='ME': the month's last day
MonthEnd(k) == Date(k \div 12, (k % 12) + 1, DaysInMonth(k \div 12, (k % 12) + 1))

\* 'word' in key, for keys made of words that neither contain '_' nor
\* one another
Contains(key, word) == \E i \in DOMAIN key : key[i] = word

\* f"{key}_suffix"
Suffixed(key, word) == Append(key, word)

kharif_months == {6, 7, 8, 9, 10}

rabi_months == {11, 12, 1, 2, 3}

\* rows whose date is not NaT
DatedRows(t) == SelectSeq(t.rows, LAMBDA r : ~IsNull(r.date))

IsTemperatureKey(key) == Contains(key, "temperature")

IsPrecipitationKey(key) == Contains(key, "precipitation")

\* a mapping handed to the transformer is the sequence of its items
\* [key, df] in insertion order, keys distinct
Keys(d) == {d[i].key : i \in DOMAIN d}

Item(d, key) == d[CHOOSE i \in DOMAIN d : d[i].key = key]

\* monthly means grouped by the month of the year alone
MonthlyMeanByMonthOfYear(t) ==
    LET rows == DatedRows(t)
        ms   == {Val(rows[i].date).m : i \in DOMAIN rows}
        y0   == SetMin({Val(rows[i].date).y : i \in DOMAIN rows})
        bin(m) == SelectSeq(rows, LAMBDA r : Val(r.date).m = m)
        mean(m) == MeanCell([i \in DOMAIN bin(m) |-> bin(m)[i].value])
    IN  IF rows = <<>> THEN <<>>
        ELSE [i \in 1..(SetMax(ms) - SetMin(ms) + 1) |->
                 [date |-> Some(MonthEnd(y0 * 12 + SetMin(ms) + i - 2)),
                  value |-> mean(SetMin(ms) + i - 1)]]

\* df.groupby(pd.Grouper(key='date', freq='ME'))[col].mean()
\*   .to_frame().reset_index(): one row per month from the first to the last
\* month that has a row, in order, months without rows included (NaN)
MonthlyMean(t) ==
    LET rows == DatedRows(t)
        ks   == {MonthIndex(Val(rows[i].date)) : i \in DOMAIN rows}
        lo   == SetMin(ks)
        hi   == SetMax(ks)
        bin(k) == SelectSeq(rows, LAMBDA r : MonthIndex(Val(r.date)) = k)
        mean(k) == MeanCell([i \in DOMAIN bin(k) |-> bin(k)[i].value])
    IN  IF rows = <<>> THEN <<>>
        ELSE [i \in 1..(hi - lo + 1) |->
                 [date |-> Some(MonthEnd(lo + i - 1)), value |-> mean(lo + i - 1)]]

\* transformer.py 119-139: every key holding 'precipitation' or
\* 'temperature' writes its own entry f"{key}_monthly"
_calculate_monthly_aggregates(d) ==
    LET keys == {k \in Keys(d) : IsPrecipitationKey(k) \/ IsTemperatureKey(k)}
        of(k) == CHOOSE key \in keys : Suffixed(key, "monthly") = k
    IN  [k \in {Suffixed(key, "monthly") : key \in keys} |->
            MonthlyMean(Item(d, of(k)).df)]

\* the i-th smallest element of a set of numbers
Nth(S, i) == CHOOSE x \in S : Cardinality({z \in S : z < x}) = i - 1

\* rabi taken as every month outside kharif
InSeasonOrOff(m, months) == IF months = kharif_months THEN m \in months ELSE m \notin kharif_months

\* df['month'].isin(months)
InSeason(m, months) == m \in months

\* df[df['month'].isin(months)].groupby('year')[col].mean(): one entry per
\* calendar year that has a row of the season, years ascending
SeasonMean(t, months) ==
    LET rows == SelectSeq(DatedRows(t), LAMBDA r : InSeason(Val(r.date).m, months))
        ys   == {Val(rows[i].date).y : i \in DOMAIN rows}
        grp(y) == SelectSeq(rows, LAMBDA r : Val(r.date).y = y)
    IN  [i \in 1..Cardinality(ys) |->
            [year  |-> Nth(ys, i),
             value |-> MeanCell([j \in DOMAIN grp(Nth(ys, i)) |-> grp(Nth(ys, i))[j].value])]]

\* region_short of transformer.py 156-157
RegionShort(key) == IF Head(key) = "maharashtra" THEN "mh" ELSE "mp"

\* f"{region_short}_kharif" / f"{region_short}_rabi"
SeasonKey(key, season) == <<RegionShort(key), season>>

\* transformer.py 141-161: the items are visited in order, a later
\* precipitation key of the same short region overwrites an earlier one
RECURSIVE SeasonalLoop(_, _, _)
SeasonalLoop(d, i, seasonal) ==
    IF i > Len(d) THEN seasonal
    ELSE IF IsPrecipitationKey(d[i].key)
         THEN SeasonalLoop(d, i + 1,
                  Put(Put(seasonal, SeasonKey(d[i].key, "kharif"), SeasonMean(d[i].df, kharif_months)),
                      SeasonKey(d[i].key, "rabi"), SeasonMean(d[i].df, rabi_months)))
         ELSE SeasonalLoop(d, i + 1, seasonal)

_calculate_seasonal_aggregates(d) == SeasonalLoop(d, 1, EmptyMap)

\* x < (p / q) * mean, on exact fractions
BelowShare(x, mean, p, q) == q * x.num * mean.den < p * mean.num * x.den

\* x > (p / q) * mean, on exact fractions
AboveShare(x, mean, p, q) == q * x.num * mean.den > p * mean.num * x.den

\* Series.mean() of a series of fractions
RECURSIVE RatSum(_, _)
RatSum(s, i) ==
    IF i > Len(s) THEN Rat(0, 1)
    ELSE LET r == RatSum(s, i + 1)
         IN  Rat(s[i].num * r.den + r.num * s[i].den, s[i].den * r.den)

RatMeanCell(cells) ==
    LET valid == SelectSeq(cells, LAMBDA c : ~IsNull(c))
        sum   == RatSum([i \in DOMAIN valid |-> Val(valid[i])], 1)
    IN  IF valid = <<>> THEN NaN
        ELSE Some(Rat(sum.num, sum.den * Len(valid)))

SeriesValues(series) == [i \in DOMAIN series |-> series[i].value]

\* (series < 0.8 * mean_rain).mean(): a comparison with NaN is False, the
\* mean of no booleans is NaN
DroughtShare(series) ==
    LET m == RatMeanCell(SeriesValues(series))
        below == {i \in DOMAIN series :
                     /\ ~IsNull(m)
                     /\ ~IsNull(series[i].value)
                     /\ BelowShare(Val(series[i].value), Val(m), 8, 10)}
    IN  IF series = <<>> THEN NaN ELSE Some(Rat(Cardinality(below), Len(series)))

\* seasonal[list(seasonal.keys())[0]] of the one-item mapping {key: df}:
\* the entry inserted first, which is the Kharif series
FirstSeasonal(item) == _calculate_seasonal_aggregates(<<item>>)[SeasonKey(item.key, "kharif")]

\* key[:key.find('_precipitation')] looked up in region_mapping
RegionOf(key, word) == SubSeq(key, 1, (CHOOSE i \in DOMAIN key : key[i] = word) - 1)

region_mapping == [r \in {<<"maharashtra">>, <<"madhya", "pradesh">>} |->
                      IF r = <<"maharashtra">> THEN "mh" ELSE "mp"]

\* the word naming the kind of a dataset, or "" when it has none
KindOf(key) ==
    IF IsPrecipitationKey(key) THEN "precipitation"
    ELSE IF IsTemperatureKey(key) THEN "temperature" ELSE ""

\* transformer.py 39-80.  The variability and the anomaly are floats whose
\* value (a mean of square roots, a mean absolute deviation) is not
\* represented: only the entry is.
RECURSIVE IndicatorLoop(_, _, _)
IndicatorLoop(d, i, ind) ==
    IF i > Len(d) THEN [raised |-> FALSE, value |-> ind]
    ELSE LET key == d[i].key
             kind == KindOf(key)
         IN  IF kind = "" THEN IndicatorLoop(d, i + 1, ind)
             ELSE IF RegionOf(key, kind) \notin DOMAIN region_mapping
                  THEN [raised |-> TRUE, value |-> EmptyMap]
             ELSE LET short == region_mapping[RegionOf(key, kind)]
                  IN  IF kind = "precipitation"
                      THEN IndicatorLoop(d, i + 1,
                               Put(Put(ind, <<short, "precip", "variability">>, NaN),
                                   <<short, "precip", "drought", "frequency">>,
                                   DroughtShare(FirstSeasonal(d[i]))))
                      ELSE IndicatorLoop(d, i + 1, Put(ind, <<short, "temp", "anomaly">>, NaN))

_calculate_resilience_indicators(d) == IndicatorLoop(d, 1, EmptyMap)

\* pd.merge(precip_df, temp_df[['date', 'mean']], on='date'): for every
\* rainfall row in order, one row per temperature row of the same date
RECURSIVE MergeRange(_, _, _, _, _)
MergeRange(left, right, keys, lo, hi) ==
    IF lo > hi THEN <<>>
    ELSE IF lo = hi
         THEN IF left[lo].date \notin keys THEN <<>>
              ELSE LET m == SelectSeq(right, LAMBDA r : r.date = left[lo].date)
                   IN  [j \in DOMAIN m |->
                           [date |-> left[lo].date, rainfall_mm |-> left[lo].value,
                            mean |-> m[j].value]]
         ELSE MergeRange(left, right, keys, lo, (lo + hi) \div 2)
                  \o MergeRange(left, right, keys, ((lo + hi) \div 2) + 1, hi)

\* a merge keeping every rainfall row, matched or not
MergeLeft(precip, temp) ==
    [i \in DOMAIN precip.rows |->
        [date |-> precip.rows[i].date, rainfall_mm |-> precip.rows[i].value,
         mean |-> IF \E j \in DOMAIN temp.rows : temp.rows[j].date = precip.rows[i].date
                  THEN temp.rows[CHOOSE j \in DOMAIN temp.rows :
                                     temp.rows[j].date = precip.rows[i].date].value
                  ELSE NaN]]

Merge(precip, temp) ==
    MergeRange(precip.rows, temp.rows, {temp.rows[j].date : j \in DOMAIN temp.rows},
               1, Len(precip.rows))

\* merged['date'].dt.month, NaN for NaT
MonthCell(date) == IF IsNull(date) THEN NaN ELSE Some(Val(date).m)

\* merged[merged['month'].isin(months)]
SeasonRows(merged, months) ==
    SelectSeq(merged, LAMBDA r : ~IsNull(MonthCell(r.date)) /\ InSeason(Val(MonthCell(r.date)), months))

\* region_mapping of transformer.py 87-90, in its order
crop_regions == << <<"maharashtra">>, <<"madhya", "pradesh">> >>

\* transformer.py 82-117
RECURSIVE CropLoop(_, _, _)
CropLoop(d, i, crop_data) ==
    IF i > Len(crop_regions) THEN [raised |-> FALSE, value |-> crop_data]
    ELSE LET full == crop_regions[i]
             pk   == Suffixed(full, "precipitation")
             tk   == Suffixed(full, "temperature")
         IN  IF pk \notin Keys(d) \/ tk \notin Keys(d)
             THEN [raised |-> TRUE, value |-> EmptyMap]
             ELSE LET merged == Merge(Item(d, pk).df, Item(d, tk).df)
                  IN  CropLoop(d, i + 1,
                          Put(Put(crop_data, Suffixed(full, "kharif"), SeasonRows(merged, kharif_months)),
                              Suffixed(full, "rabi"), SeasonRows(merged, rabi_months)))

_transform_crop_data(d) == CropLoop(d, 1, EmptyMap)

(***************************************************************************)
(* The transformer's operations applied to one mapping (SpecTransform)     *)
(***************************************************************************)
BaseYear == 2020

\* dates on both sides of every season boundary, in two years
CalendarAlphabet ==
    {Date(BaseYear, 3, 31), Date(BaseYear, 5, 31), Date(BaseYear, 6, 1),
     Date(BaseYear, 11, 1), Date(BaseYear + 1, 1, 1), Date(BaseYear + 1, 6, 1)}

DateLeq(a, b) ==
    \/ a.y < b.y
    \/ a.y = b.y /\ a.m < b.m
    \/ a.y = b.y /\ a.m = b.m /\ a.d <= b.d

RainAlphabet == {5, 20}

\* a table of given dates and values, its date column parsed
Frame(c, dates, values) ==
    MakeTable(c, "datetime64", [i \in DOMAIN dates |-> Some(dates[i])],
              [i \in DOMAIN values |-> Some(values[i])])

\* pd.date_range(start, periods): the days of the months first..last, months
\* counted as in MonthIndex
RECURSIVE DaysOfMonths(_, _)
DaysOfMonths(first, last) ==
    IF first > last THEN <<>>
    ELSE IF first = last
         THEN [d \in 1..MonthEnd(first).d |-> Date(first \div 12, (first % 12) + 1, d)]
         ELSE DaysOfMonths(first, (first + last) \div 2)
                  \o DaysOfMonths(((first + last) \div 2) + 1, last)

\* a daily value that depends on the season and on the parity of the year
SeasonalValue(p, date) ==
    IF date.m \in kharif_months THEN p.k[date.y % 2]
    ELSE IF date.m \in rabi_months THEN p.r[date.y % 2]
    ELSE p.o

Patterns ==
    [k : [0..1 -> RainAlphabet],
     r : {[y \in 0..1 |-> 20], [y \in 0..1 |-> IF y = 0 THEN 5 ELSE 20]},
     o : {5}]

DailyFrame(c, first, last, p) ==
    LET days == DaysOfMonths(first, last)
    IN  Frame(c, days, [i \in DOMAIN days |-> SeasonalValue(p, days[i])])

\* the keys of load_all and the keys of tests/test_transformer.py
PipelineKeys ==
    << <<"maharashtra", "precipitation">>, <<"maharashtra", "temperature">>,
       <<"madhya", "pradesh", "precipitation">>, <<"madhya", "pradesh", "temperature">> >>

TestKeys == << <<"mh", "precip">>, <<"mh", "temp">> >>

KeySets == {PipelineKeys, TestKeys}

\* the mapping of a rainfall and a temperature table under the given keys;
\* the second region holds the same days with the columns exchanged
Mapping(keys, rain, temp) ==
    LET tables == <<rain, temp,
                    [col |-> "rainfall_mm", dtype |-> temp.dtype, rows |-> temp.rows],
                    [col |-> "mean", dtype |-> rain.dtype, rows |-> rain.rows]>>
    IN  [i \in DOMAIN keys |-> [key |-> keys[i], df |-> tables[i]]]

\* temperature tables for a rainfall table: the same days, the days after
\* the first, or three fixed days
TempFrames(dates) ==
    {Frame("mean", dates, [i \in DOMAIN dates |-> 25]),
     Frame("mean", Tail(dates \o <<Date(BaseYear, 6, 1)>>),
                   [i \in DOMAIN dates |-> 30]),
     Frame("mean", <<Date(BaseYear, 3, 31), Date(BaseYear, 6, 1), Date(BaseYear, 6, 1)>>,
                   <<10, 25, 40>>)}

FirstMonth == BaseYear * 12

TInit ==
    /\ pc = "t_start"
    /\ Idle
    /\ ret = NaN
    /\ \E keys \in KeySets :
         \/ \E n \in 0..MaxRows :
              \E dates \in [1..n -> CalendarAlphabet], values \in [1..n -> RainAlphabet] :
                 /\ keys = PipelineKeys \/ n <= 1
                 /\ \A i \in 1..(n - 1) : DateLeq(dates[i], dates[i + 1])
                 /\ \E temp \in TempFrames(dates) :
                       arg = Mapping(keys, Frame("rainfall_mm", dates, values), temp)
         \/ \E years \in 1..MaxYears, p \in Patterns :
              \E temp \in {DailyFrame("mean", FirstMonth + 4, FirstMonth + 5, p),
                           IF keys = TestKeys
                           THEN DailyFrame("mean", FirstMonth, FirstMonth + 12 * years - 1, p)
                           ELSE DailyFrame("mean", FirstMonth + 10, FirstMonth + 12, p)} :
                 arg = Mapping(keys, DailyFrame("rainfall_mm", FirstMonth,
                                                FirstMonth + 12 * years - 1, p), temp)

Ok(v) == [raised |-> FALSE, value |-> v]

MonthlyAggregates ==
    /\ pc = "t_start"
    /\ ret' = Ok(_calculate_monthly_aggregates(arg))
    /\ pc' = "t_monthly"
    /\ UNCHANGED <<trace, heap, heap0, data, quality_reports, calls, arg>>

SeasonalAggregates ==
    /\ pc = "t_start"
    /\ ret' = Ok(_calculate_seasonal_aggregates(arg))
    /\ pc' = "t_seasonal"
    /\ UNCHANGED <<trace, heap, heap0, data, quality_reports, calls, arg>>

ResilienceIndicators ==
    /\ pc = "t_start"
    /\ ret' = _calculate_resilience_indicators(arg)
    /\ pc' = "t_indicators"
    /\ UNCHANGED <<trace, heap, heap0, data, quality_reports, calls, arg>>

TransformCropData ==
    /\ pc = "t_start"
    /\ ret' = _transform_crop_data(arg)
    /\ pc' = "t_crop"
    /\ UNCHANGED <<trace, heap, heap0, data, quality_reports, calls, arg>>

TNext == MonthlyAggregates \/ SeasonalAggregates \/ ResilienceIndicators \/ TransformCropData

SpecTransform == TInit /\ [][TNext]_vars

\* the rows of t with the given indices have the fraction in cell as their
\* arithmetic mean
IsMeanOf(cell, t, I) ==
    LET idx  == SelectSeq([i \in 1..Len(t.rows) |-> i], LAMBDA i : i \in I)
        vals == [j \in DOMAIN idx |-> Val(t.rows[idx[j]].value)]
    IN  /\ I # {}
        /\ ~IsNull(cell)
        /\ Val(cell).den > 0
        /\ Val(cell).num * Len(vals) = SumRange(vals, 1, Len(vals)) * Val(cell).den

RowsWhere(t, P(_)) == {i \in DOMAIN t.rows : P(Val(t.rows[i].date))}

\* C11: both aggregations key their output by the input dataset's key: every
\* dataset key K given to the monthly aggregation has an entry K_monthly,
\* and every rainfall dataset key K given to the seasonal aggregation has
\* entries K_kharif and K_rabi.
C11_KeyedByDataset ==
    /\ pc = "t_monthly" =>
          \A i \in DOMAIN arg : Append(arg[i].key, "monthly") \in DOMAIN ret.value
    /\ pc = "t_seasonal" =>
          \A i \in DOMAIN arg :
              arg[i].df.col = "rainfall_mm" =>
                  /\ Append(arg[i].key, "kharif") \in DOMAIN ret.value
                  /\ Append(arg[i].key, "rabi") \in DOMAIN ret.value

\* the table holds every day of the calendar years y0 .. y1 once, in order
CoversYears(t, y0, y1) ==
    /\ Len(t.rows) = SumRange([k \in 1..(12 * (y1 - y0 + 1)) |-> MonthEnd(y0 * 12 + k - 1).d],
                              1, 12 * (y1 - y0 + 1))
    /\ \A i \in DOMAIN t.rows :
          /\ ~IsNull(t.rows[i].date)
          /\ ~IsNull(t.rows[i].value)
    /\ Val(t.rows[1].date) = [y |-> y0, m |-> 1, d |-> 1]
    /\ Val(t.rows[Len(t.rows)].date) = [y |-> y1, m |-> 12, d |-> 31]
    /\ \A i \in 1..(Len(t.rows) - 1) :
          LET a == Val(t.rows[i].date)
              b == Val(t.rows[i + 1].date)
          IN  \/ b = [y |-> a.y, m |-> a.m, d |-> a.d + 1]
              \/ a.d = DaysInMonth(a.y, a.m) /\ b.d = 1
                 /\ (IF a.m = 12 THEN b.y = a.y + 1 /\ b.m = 1 ELSE b.y = a.y /\ b.m = a.m + 1)

\* the monthly table of t has one row per month of the years y0 .. y1, in
\* order, dated at the month's end and holding the month's mean
MonthlyOfYears(monthly, t, y0, y1) ==
    /\ Len(monthly) = 12 * (y1 - y0 + 1)
    /\ \A i \in DOMAIN monthly :
          LET y == y0 + ((i - 1) \div 12)
              m == ((i - 1) % 12) + 1
          IN  /\ monthly[i].date = Some([y |-> y, m |-> m, d |-> DaysInMonth(y, m)])
              /\ IsMeanOf(monthly[i].value, t, RowsWhere(t, LAMBDA dt : dt.y = y /\ dt.m = m))

SeasonOfYears(series, t, months) ==
    LET has(y) == RowsWhere(t, LAMBDA dt : dt.y = y /\ dt.m \in months)
        years  == {Val(t.rows[i].date).y : i \in DOMAIN t.rows}
    IN  /\ {series[i].year : i \in DOMAIN series} = {y \in years : has(y) # {}}
        /\ \A i \in 1..(Len(series) - 1) : series[i].year < series[i + 1].year
        /\ \A i \in DOMAIN series : IsMeanOf(series[i].value, t, has(series[i].year))

\* C13: a row is Kharif iff its month is in 6..10 and Rabi iff its month is
\* in {11, 12, 1, 2, 3}; April and May rows are in neither; grouping is by
\* the row's own calendar year, so the Rabi entry of year Y is the mean of
\* the Jan-Mar and Nov-Dec rows dated in Y.
C13_SeasonsByCalendarYear ==
    pc = "t_seasonal" =>
        \A i \in DOMAIN arg :
            "precipitation" \in Range(arg[i].key) =>
                LET short == IF arg[i].key[1] = "maharashtra" THEN "mh" ELSE "mp"
                IN  /\ <<short, "kharif">> \in DOMAIN ret.value
                    /\ <<short, "rabi">> \in DOMAIN ret.value
                    /\ SeasonOfYears(ret.value[<<short, "kharif">>], arg[i].df, {6, 7, 8, 9, 10})
                    /\ SeasonOfYears(ret.value[<<short, "rabi">>], arg[i].df, {11, 12, 1, 2, 3})

\* a table with a November row of one year, a January row of the next and a
\* May row gave two separate Rabi entries, the May row in neither season
C13_Witness ==
    /\ pc = "t_seasonal"
    /\ arg[1].key = <<"maharashtra", "precipitation">>
    /\ {Val(arg[1].df.rows[i].date) : i \in DOMAIN arg[1].df.rows}
          = {[y |-> BaseYear, m |-> 5, d |-> 31], [y |-> BaseYear, m |-> 11, d |-> 1],
             [y |-> BaseYear + 1, m |-> 1, d |-> 1]}
    /\ Len(ret.value[<<"mh", "rabi">>]) = 2
    /\ ret.value[<<"mh", "kharif">>] = <<>>

\* the number of rows of a crop table dated d, and the pairs they hold
CropCount(rows, d) == Cardinality({i \in DOMAIN rows : rows[i].date = d})

CropPairs(rows, d) ==
    {<<rows[i].rainfall_mm, rows[i].mean>> : i \in {j \in DOMAIN rows : rows[j].date = d}}

\* C14: per region a date is in the joined table iff it occurs in both the
\* rainfall and the temperature table; the Kharif and Rabi tables are
\* disjoint and together hold exactly the joined rows whose month is not
\* April or May.
C14_InnerJoinBySeason ==
    (pc = "t_crop" /\ ~ret.raised) =>
        \A r \in {<<"maharashtra">>, <<"madhya", "pradesh">>} :
            LET P == arg[CHOOSE i \in DOMAIN arg : arg[i].key = Append(r, "precipitation")].df
                T == arg[CHOOSE i \in DOMAIN arg : arg[i].key = Append(r, "temperature")].df
                K == ret.value[Append(r, "kharif")]
                R == ret.value[Append(r, "rabi")]
                both == {P.rows[i].date : i \in DOMAIN P.rows} \cap {T.rows[i].date : i \in DOMAIN T.rows}
                inP(d) == {i \in DOMAIN P.rows : P.rows[i].date = d}
                inT(d) == {i \in DOMAIN T.rows : T.rows[i].date = d}
            IN  /\ \A i \in DOMAIN K : K[i].date \in both /\ Val(K[i].date).m \in {6, 7, 8, 9, 10}
                /\ \A i \in DOMAIN R : R[i].date \in both /\ Val(R[i].date).m \in {11, 12, 1, 2, 3}
                /\ \A d \in both :
                      /\ CropCount(K, d) = 0 \/ CropCount(R, d) = 0
                      /\ CropCount(K, d) + CropCount(R, d) =
                            (IF Val(d).m \in {4, 5} THEN 0
                             ELSE Cardinality(inP(d)) * Cardinality(inT(d)))
                      /\ CropPairs(K, d) \cup CropPairs(R, d) =
                            (IF Val(d).m \in {4, 5} THEN {}
                             ELSE {<<P.rows[i].value, T.rows[j].value>> : i \in inP(d), j \in inT(d)})

\* a rainfall row without a temperature row of its date was dropped, while
\* rows of both seasons were kept
C14_Witness ==
    /\ pc = "t_crop"
    /\ ~ret.raised
    /\ LET P == arg[1].df
           T == arg[2].df
       IN  /\ \E i \in DOMAIN P.rows : \A j \in DOMAIN T.rows : T.rows[j].date # P.rows[i].date
           /\ ret.value[<<"maharashtra", "kharif">>] # <<>>
           /\ ret.value[<<"maharashtra", "rabi">>] # <<>>

\* C15: the drought-frequency indicator of a region is the fraction of that
\* region's seasonal aggregate values (its Kharif and its Rabi per-year
\* means) lying below 80% of the overall mean of those values.
C15_DroughtFrequency ==
    (pc = "t_indicators" /\ ~ret.raised) =>
        \A i \in DOMAIN arg :
            "precipitation" \in Range(arg[i].key) =>
                LET short == IF arg[i].key[1] = "maharashtra" THEN "mh" ELSE "mp"
                    all   == SeasonMean(arg[i].df, {6, 7, 8, 9, 10})
                                 \o SeasonMean(arg[i].df, {11, 12, 1, 2, 3})
                IN  ret.value[<<short, "precip", "drought", "frequency">>] = DroughtShare(all)

(***************************************************************************)
(* ResilienceAnalyzer (resilience.py)                                      *)
(*                                                                         *)
(* A float is NaN, or Some of a number rat + coef * sqrt(root) with rat,   *)
(* coef and root exact fractions, root >= 0 (coef = 0 for a rational);     *)
(* the standard deviation is the only source of a square root.             *)
(***************************************************************************)
drought_threshold == Rat(8, 10)

excess_threshold == Rat(12, 10)

temp_stress_high == 35

temp_stress_low == 15

RInt(n) == Rat(n, 1)

RAdd(a, b) == Rat(a.num * b.den + b.num * a.den, a.den * b.den)

RNeg(a) == [num |-> -a.num, den |-> a.den]

RSub(a, b) == RAdd(a, RNeg(b))

RMul(a, b) == Rat(a.num * b.num, a.den * b.den)

\* a / b for b # 0
RDiv(a, b) ==
    IF b.num > 0 THEN Rat(a.num * b.den, a.den * b.num)
    ELSE Rat(-(a.num * b.den), a.den * (-b.num))

RLt(a, b) == a.num * b.den < b.num * a.den

Num(rat, coef, root) ==
    IF coef.num = 0 \/ root.num = 0
    THEN [rat |-> rat, coef |-> RInt(0), root |-> RInt(0)]
    ELSE [rat |-> rat, coef |-> coef, root |-> root]

\* x < c and x > c for a float x that is not NaN and a fraction c
Lt(x, c) ==
    IF x.coef.num = 0 THEN RLt(x.rat, c)
    ELSE IF x.coef.num < 0
         THEN LET u == RDiv(RSub(x.rat, c), RNeg(x.coef))
              IN  u.num < 0 \/ RLt(RMul(u, u), x.root)
         ELSE LET u == RDiv(RSub(c, x.rat), x.coef)
              IN  u.num > 0 /\ RLt(x.root, RMul(u, u))

Gt(x, c) ==
    IF x.coef.num = 0 THEN RLt(c, x.rat)
    ELSE IF x.coef.num < 0
         THEN LET u == RDiv(RSub(x.rat, c), RNeg(x.coef))
              IN  u.num > 0 /\ RLt(x.root, RMul(u, u))
         ELSE LET u == RDiv(RSub(c, x.rat), x.coef)
              IN  u.num < 0 \/ RLt(RMul(u, u), x.root)

ValidCells(series) == SelectSeq(series, LAMBDA c : ~IsNull(c))

\* Series.std() squared: the sample variance (ddof = 1) of the values that
\* are not NaN; NaN for fewer than two of them
VarCell(series) ==
    LET valid == ValidCells(series)
        k     == Len(valid)
        vals  == [i \in DOMAIN valid |-> Val(valid[i])]
        S     == SumRange(vals, 1, k)
        SS    == SumRange([i \in DOMAIN vals |-> vals[i] * vals[i]], 1, k)
    IN  IF k < 2 THEN NaN ELSE Some(Rat(k * SS - S * S, k * (k - 1)))

\* the share of the entries at or below share * mean
ShareAtOrBelow(series, mean, share) ==
    IF series = <<>> THEN NaN
    ELSE Some(Rat(Cardinality({i \in DOMAIN series :
                      /\ ~IsNull(series[i]) /\ ~IsNull(mean)
                      /\ ~RLt(RMul(share, Val(mean)), RInt(Val(series[i])))}), Len(series)))

\* (series < share * mean).mean() and (series > share * mean).mean(): the
\* share of the entries; a comparison with NaN is False, the mean of no
\* booleans is NaN
ShareBelow(series, mean, share) ==
    IF series = <<>> THEN NaN
    ELSE Some(Rat(Cardinality({i \in DOMAIN series :
                      /\ ~IsNull(series[i]) /\ ~IsNull(mean)
                      /\ RLt(RInt(Val(series[i])), RMul(share, Val(mean)))}), Len(series)))

ShareAbove(series, mean, share) ==
    IF series = <<>> THEN NaN
    ELSE Some(Rat(Cardinality({i \in DOMAIN series :
                      /\ ~IsNull(series[i]) /\ ~IsNull(mean)
                      /\ RLt(RMul(share, Val(mean)), RInt(Val(series[i])))}), Len(series)))

\* 100 - inf: a root with denominator 0
MinusInf == Some([rat |-> RInt(0), coef |-> RInt(-1), root |-> [num |-> 1, den |-> 0]])

\* the score returned as computed, without the clamp
Unclamped(score) ==
    IF IsNull(score) THEN Some(Num(RInt(100), RInt(0), RInt(0)))
    ELSE IF score = MinusInf THEN Some(Num(RInt(0), RInt(0), RInt(0)))
    ELSE score

\* max(0, min(100, score)): min keeps 100 unless score < 100, max keeps 0
\* unless the result is > 0; every comparison with NaN is False
Clamp(score) ==
    IF IsNull(score) THEN Some(Num(RInt(100), RInt(0), RInt(0)))
    ELSE IF score = MinusInf THEN Some(Num(RInt(0), RInt(0), RInt(0)))
    ELSE IF ~Lt(Val(score), RInt(100)) THEN Some(Num(RInt(100), RInt(0), RInt(0)))
    ELSE IF ~Gt(Val(score), RInt(0)) THEN Some(Num(RInt(0), RInt(0), RInt(0)))
    ELSE score

\* resilience.py 23-38.  variability = std / mean is NaN when std or mean
\* is, or for 0 / 0; it is infinite for a zero mean with a positive std,
\* which takes the score to -inf; else it is sign(mean) * sqrt(var / mean^2)
RainScore(rainfall) ==
    LET mean == MeanCell(rainfall)
        var  == VarCell(rainfall)
        d    == ShareBelow(rainfall, mean, drought_threshold)
        e    == ShareAbove(rainfall, mean, excess_threshold)
    IN  IF IsNull(mean) \/ IsNull(var) \/ (Val(mean).num = 0 /\ Val(var).num = 0) THEN NaN
        ELSE LET rat == RSub(RSub(RInt(100), RMul(RInt(100), Val(d))), RMul(RInt(75), Val(e)))
             IN  IF Val(mean).num = 0
                 THEN MinusInf
                 ELSE Some(Num(rat,
                               IF Val(mean).num > 0 THEN RInt(-50) ELSE RInt(50),
                               RDiv(Val(var), RMul(Val(mean), Val(mean)))))

_rainfall_resilience(rainfall) == Clamp(RainScore(rainfall))

\* (temperature > 35).mean() and (temperature < 15).mean()
ShareOver(series, limit) ==
    IF series = <<>> THEN NaN
    ELSE Some(Rat(Cardinality({i \in DOMAIN series :
                      ~IsNull(series[i]) /\ Val(series[i]) > limit}), Len(series)))

ShareUnder(series, limit) ==
    IF series = <<>> THEN NaN
    ELSE Some(Rat(Cardinality({i \in DOMAIN series :
                      ~IsNull(series[i]) /\ Val(series[i]) < limit}), Len(series)))

\* resilience.py 40-51
_temperature_resilience(temperature) ==
    LET high == ShareOver(temperature, temp_stress_high)
        low  == ShareUnder(temperature, temp_stress_low)
    IN  Clamp(IF IsNull(high) \/ IsNull(low) THEN NaN
              ELSE Some(Num(RSub(RSub(RInt(100), RMul(RInt(100), Val(high))),
                                 RMul(RInt(75), Val(low))), RInt(0), RInt(0))))

\* (rain_score + temp_score) / 2; the temperature score is rational
Half(rain, temp) ==
    Some(Num(RMul(RAdd(Val(rain).rat, Val(temp).rat), Rat(1, 2)),
             RMul(Val(rain).coef, Rat(1, 2)), Val(rain).root))

\* resilience.py 17-21
calculate_resilience_score(rainfall, temperature) ==
    LET rain_score == _rainfall_resilience(rainfall)
        temp_score == _temperature_resilience(temperature)
    IN  [rain_score |-> rain_score, temp_score |-> temp_score,
         score |-> Half(rain_score, temp_score)]

drought_management ==
    <<"Implement comprehensive drought management plan",
      "Invest in climate-resistant crop varieties",
      "Develop water storage infrastructure">>

efficiency ==
    <<"Improve irrigation efficiency",
      "Implement soil moisture conservation",
      "Diversify crop portfolio">>

maintenance ==
    <<"Maintain current resilience measures",
      "Monitor climate patterns",
      "Plan for future climate scenarios">>

low_tier == RInt(30)

mid_tier == RInt(60)

\* the tiers with the boundary scores in the lower tier
StrategiesBoundaryLow(score) ==
    IF ~Gt(score, low_tier) THEN drought_management
    ELSE IF ~Gt(score, mid_tier) THEN efficiency
    ELSE maintenance

\* resilience.py 53-76
get_adaptation_strategies(score) ==
    IF Lt(score, low_tier) THEN drought_management
    ELSE IF Lt(score, mid_tier) THEN efficiency
    ELSE maintenance

(***************************************************************************)
(* calculate_resilience_score and get_adaptation_strategies applied to a   *)
(* rainfall and a temperature series (SpecResilience)                      *)
(***************************************************************************)
\* rainfall values around 80% and 120% of a mean of 5, and none
RainSeriesAlphabet == {NaN, Some(0), Some(4), Some(5), Some(6)}

\* temperature series around the stress limits
TempSeries ==
    {<<>>, <<Some(25)>>, <<Some(15), Some(35)>>, <<Some(14)>>, <<Some(36)>>,
     <<Some(14), Some(36)>>, <<NaN, Some(25)>>, <<Some(36), Some(36)>>}

\* scores at, below and above the tier boundaries, and outside [0, 100]
ScoreAlphabet ==
    {Rat(-5, 1), Rat(0, 1), Rat(59, 2), Rat(30, 1), Rat(45, 1), Rat(119, 2),
     Rat(60, 1), Rat(100, 1), Rat(150, 1)}

SInit ==
    /\ pc = "s_start"
    /\ Idle
    /\ ret = NaN
    /\ \E n \in 0..MaxRows :
         \E rainfall \in [1..n -> RainSeriesAlphabet], temperature \in TempSeries :
            arg = [rainfall |-> rainfall, temperature |-> temperature]

CalculateResilienceScore ==
    /\ pc = "s_start"
    /\ ret' = calculate_resilience_score(arg.rainfall, arg.temperature)
    /\ pc' = "s_scored"
    /\ UNCHANGED <<trace, heap, heap0, data, quality_reports, calls, arg>>

\* the strategies for the score just computed, or for any other score
GetAdaptationStrategies ==
    /\ pc = "s_scored"
    /\ \E x \in {Val(ret.score)} \cup {Num(c, RInt(0), RInt(0)) : c \in ScoreAlphabet} :
          ret' = [input |-> x, strategies |-> get_adaptation_strategies(x)]
    /\ pc' = "s_done"
    /\ UNCHANGED <<trace, heap, heap0, data, quality_reports, calls, arg>>

SNext == CalculateResilienceScore \/ GetAdaptationStrategies

SpecResilience == SInit /\ [][SNext]_vars

\* a float that is a number between 0 and 100
InUnit(x) ==
    /\ ~IsNull(x)
    /\ x # MinusInf
    /\ ~Lt(Val(x), Rat(0, 1))
    /\ ~Gt(Val(x), Rat(100, 1))

\* C16: for every non-empty rainfall and temperature series, a zero-mean
\* rainfall series included, both sub-scores are defined numbers in
\* [0, 100] and calculate_resilience_score returns exactly their mean,
\* itself in [0, 100].
C16_ScoresInRange ==
    (pc = "s_scored" /\ arg.rainfall # <<>> /\ arg.temperature # <<>>) =>
        /\ InUnit(ret.rain_score)
        /\ InUnit(ret.temp_score)
        /\ InUnit(ret.score)
        /\ LET s == Val(ret.score)
               r == Val(ret.rain_score)
               t == Val(ret.temp_score)
           IN  /\ t.coef.num = 0
               /\ RAdd(s.rat, s.rat) = RAdd(r.rat, t.rat)
               /\ RAdd(s.coef, s.coef) = r.coef
               /\ s.root = r.root

\* a rainfall series of zeros (mean zero) was scored
C16_Witness ==
    /\ pc = "s_scored"
    /\ arg.rainfall = <<Some(0), Some(0)>>
    /\ arg.temperature = <<Some(15), Some(35)>>
    /\ ret.score = Some([rat |-> Rat(100, 1), coef |-> Rat(0, 1), root |-> Rat(0, 1)])

\* clamp(rat - 50 * sqrt(P / Q), 0, 100) for a fraction rat = An / n <= 100
\* and integers P >= 0, Q > 0
ClampedRain(An, n, P, Q) ==
    IF An >= 100 * n /\ P = 0 THEN [rat |-> Rat(100, 1), coef |-> Rat(0, 1), root |-> Rat(0, 1)]
    ELSE IF An <= 0 \/ An * An * Q <= 2500 * n * n * P
         THEN [rat |-> Rat(0, 1), coef |-> Rat(0, 1), root |-> Rat(0, 1)]
    ELSE IF P = 0 THEN [rat |-> Rat(An, n), coef |-> Rat(0, 1), root |-> Rat(0, 1)]
    ELSE [rat |-> Rat(An, n), coef |-> Rat(-50, 1), root |-> Rat(P, Q)]

\* the rainfall sub-score by the formula, for a series of numbers with a
\* positive mean and at least two entries
RainByFormula(series) ==
    LET v  == [i \in DOMAIN series |-> Val(series[i])]
        n  == Len(v)
        S  == SumSeq(v)
        SS == SumSeq([i \in DOMAIN v |-> v[i] * v[i]])
        D  == Cardinality({i \in DOMAIN v : 10 * n * v[i] < 8 * S})
        E  == Cardinality({i \in DOMAIN v : 10 * n * v[i] > 12 * S})
    IN  ClampedRain(100 * n - 100 * D - 75 * E, n, n * (n * SS - S * S), (n - 1) * S * S)

TempByFormula(series) ==
    LET n == Len(series)
        H == Cardinality({i \in DOMAIN series : ~IsNull(series[i]) /\ Val(series[i]) > 35})
        L == Cardinality({i \in DOMAIN series : ~IsNull(series[i]) /\ Val(series[i]) < 15})
        x == 100 * n - 100 * H - 75 * L
    IN  [rat |-> IF x >= 100 * n THEN Rat(100, 1) ELSE IF x <= 0 THEN Rat(0, 1) ELSE Rat(x, n),
         coef |-> Rat(0, 1), root |-> Rat(0, 1)]

Hundred == Some([rat |-> Rat(100, 1), coef |-> Rat(0, 1), root |-> Rat(0, 1)])

\* C17: the rainfall sub-score is clamp(100 - 50*CV - 100*droughtFreq
\* - 75*excessFreq, 0, 100), the frequencies being the shares of values
\* below 80% / above 120% of the mean; the temperature sub-score is
\* clamp(100 - 100*frac(>35) - 75*frac(<15), 0, 100); identical positive
\* rainfall scores 100, temperatures within [15, 35] score 100, and together
\* the combined score is 100.
C17_ScoreFormulas ==
    pc = "s_scored" =>
        LET rain == arg.rainfall
            temp == arg.temperature
            numbers == \A i \in DOMAIN rain : ~IsNull(rain[i])
            same == numbers /\ rain # <<>> /\ \A i \in DOMAIN rain : rain[i] = rain[1] /\ Val(rain[i]) > 0
            mild == temp # <<>> /\ \A i \in DOMAIN temp :
                        ~IsNull(temp[i]) /\ Val(temp[i]) >= 15 /\ Val(temp[i]) <= 35
        IN  /\ (numbers /\ Len(rain) >= 2 /\ \E i \in DOMAIN rain : Val(rain[i]) > 0)
                  => ret.rain_score = Some(RainByFormula(rain))
            /\ temp # <<>> => ret.temp_score = Some(TempByFormula(temp))
            /\ same => ret.rain_score = Hundred
            /\ mild => ret.temp_score = Hundred
            /\ (same /\ mild) => ret.score = Hundred

\* identical positive rainfall values and temperatures within [15, 35]
\* scored 100
C17_Witness ==
    /\ pc = "s_scored"
    /\ arg.rainfall = <<Some(5), Some(5), Some(5)>>
    /\ arg.temperature = <<Some(15), Some(35)>>
    /\ ret.rain_score = Hundred
    /\ ret.score = Hundred

\* C18: exactly one tier for every score: drought management iff
\* score < 30, efficiency/diversification iff 30 <= score < 60,
\* maintenance/monitoring iff score >= 60; always exactly three strings of
\* one tier.
C18_StrategyTiers ==
    pc = "s_done" =>
        LET x == ret.input
            s == ret.strategies
            below30 == Lt(x, Rat(30, 1))
            below60 == Lt(x, Rat(60, 1))
        IN  /\ Len(s) = 3
            /\ s \in {<<"Implement comprehensive drought management plan",
                        "Invest in climate-resistant crop varieties",
                        "Develop water storage infrastructure">>,
                      <<"Improve irrigation efficiency",
                        "Implement soil moisture conservation",
                        "Diversify crop portfolio">>,
                      <<"Maintain current resilience measures",
                        "Monitor climate patterns",
                        "Plan for future climate scenarios">>}
            /\ (s[1] = "Implement comprehensive drought management plan") = below30
            /\ (s[1] = "Improve irrigation efficiency") = (~below30 /\ below60)
            /\ (s[1] = "Maintain current resilience measures") = (~below60)

\* the boundary scores 30 and 60 fell in the higher tier
C18_Witness ==
    /\ pc = "s_done"
    /\ ret.input.rat = Rat(30, 1)
    /\ ret.input.coef = Rat(0, 1)
    /\ ret.strategies[1] = "Improve irrigation efficiency"

(***************************************************************************)
(* ClimateAnalyzer: season classification and economic impact              *)
(* (analyzer.py).  A seasonal series is a sequence of [year, value], the   *)
(* value a fraction or NaN; a mapping is the sequence of its items         *)
(* [key, series] in insertion order.  Amounts of money are m * 10^e with   *)
(* m free of trailing zeros, as the products exceed 32 bits.               *)
(***************************************************************************)
crop_info ==
    <<[crop |-> "Soybean", area |-> 3000000, price |-> 4000, yield |-> 10],
      [crop |-> "Cotton",  area |-> 2500000, price |-> 6000, yield |-> 8],
      [crop |-> "Wheat",   area |-> 2000000, price |-> 2500, yield |-> 25],
      [crop |-> "Gram",    area |-> 1500000, price |-> 5000, yield |-> 8],
      [crop |-> "Paddy",   area |-> 1800000, price |-> 2200, yield |-> 20]>>

impact_map == [s \in {"Drought", "Excess Rain", "Normal"} |->
                  IF s = "Drought" THEN -20 ELSE IF s = "Excess Rain" THEN -10 ELSE 0]

\* the label with the boundary values counted as Drought and Excess Rain
ClassifyInclusive(x, mean) ==
    IF IsNull(x) \/ IsNull(mean) THEN "Normal"
    ELSE IF ~AboveShare(Val(x), Val(mean), 8, 10) THEN "Drought"
    ELSE IF ~BelowShare(Val(x), Val(mean), 12, 10) THEN "Excess Rain"
    ELSE "Normal"

\* the label with the limits exchanged: Drought below 120% of the mean
ClassifyExchanged(x, mean) ==
    IF IsNull(x) \/ IsNull(mean) THEN "Normal"
    ELSE IF BelowShare(Val(x), Val(mean), 12, 10) THEN "Drought"
    ELSE IF AboveShare(Val(x), Val(mean), 8, 10) THEN "Excess Rain"
    ELSE "Normal"

\* analyzer.py 158-159: every comparison with NaN is False
Classify(x, mean) ==
    IF IsNull(x) \/ IsNull(mean) THEN "Normal"
    ELSE IF BelowShare(Val(x), Val(mean), 8, 10) THEN "Drought"
    ELSE IF AboveShare(Val(x), Val(mean), 12, 10) THEN "Excess Rain"
    ELSE "Normal"

\* series.apply(...): one label per entry, under the entry's year
ClassifySeries(series) ==
    [i \in DOMAIN series |->
        [year |-> series[i].year,
         status |-> Classify(series[i].value, RatMeanCell(SeriesValues(series)))]]

\* analyzer.py 152-161
_classify_seasons(seasonal_data) ==
    [i \in DOMAIN seasonal_data |->
        [key |-> seasonal_data[i].key, series |-> ClassifySeries(seasonal_data[i].series)]]

RECURSIVE Sci(_)
Sci(n) ==
    IF n = 0 THEN [m |-> 0, e |-> 0]
    ELSE IF n % 10 = 0 THEN [m |-> Sci(n \div 10).m, e |-> Sci(n \div 10).e + 1]
    ELSE [m |-> n, e |-> 0]

SciNorm(m, e) == [m |-> Sci(m).m, e |-> IF m = 0 THEN 0 ELSE e + Sci(m).e]

SciMul(a, b) == SciNorm(a.m * b.m, a.e + b.e)

\* yield_loss_pct * base_revenue, the division by 100 left out
EstimatedLossNoPercent(pct, base_revenue) == SciMul(SciNorm(pct, 0), base_revenue)

\* (yield_loss_pct / 100) * base_revenue
EstimatedLoss(pct, base_revenue) == SciMul(SciNorm(pct, -2), base_revenue)

RegionName(key) == IF Head(key) = "mh" THEN "Maharashtra" ELSE "Madhya Pradesh"

SeasonName(key) == IF Contains(key, "kharif") THEN "Kharif" ELSE "Rabi"

\* the rows appended for one year of one series, one per crop
CropRows(key, entry) ==
    [c \in DOMAIN crop_info |->
        LET vals == crop_info[c]
            base_yield == SciMul(Sci(vals.area), Sci(vals.yield))
            base_revenue == SciMul(base_yield, Sci(vals.price))
        IN  [Region |-> RegionName(key), Year |-> entry.year, Season |-> SeasonName(key),
             Crop |-> vals.crop, Status |-> entry.status,
             Base_Yield |-> base_yield, Base_Revenue |-> base_revenue,
             Estimated_Loss |-> EstimatedLoss(impact_map[entry.status], base_revenue)]]

RECURSIVE YearLoop(_, _, _)
YearLoop(key, series, i) ==
    IF i > Len(series) THEN <<>>
    ELSE CropRows(key, series[i]) \o YearLoop(key, series, i + 1)

RECURSIVE ImpactLoop(_, _)
ImpactLoop(classification, i) ==
    IF i > Len(classification) THEN <<>>
    ELSE YearLoop(classification[i].key, classification[i].series, 1)
             \o ImpactLoop(classification, i + 1)

\* analyzer.py 163-192
_calculate_economic_impact(classification) == ImpactLoop(classification, 1)

(***************************************************************************)
(* _classify_seasons and _calculate_economic_impact applied to a seasonal  *)
(* mapping (SpecAnalyze)                                                   *)
(***************************************************************************)
\* per-year means around 80% and 120% of a mean of 10, and none
SeasonalAlphabet == {NaN, Some(Rat(0, 1)), Some(Rat(8, 1)), Some(Rat(10, 1)), Some(Rat(12, 1))}

\* the keys _calculate_seasonal_aggregates writes, in its order
SeasonalKeys == << <<"mh", "kharif">>, <<"mh", "rabi">>, <<"mp", "kharif">>, <<"mp", "rabi">> >>

YearsFrom(values) == [i \in DOMAIN values |-> [year |-> BaseYear + i - 1, value |-> values[i]]]

\* the Rabi series of a region lacks the first year of its Kharif series
SeasonalMapping(k, values) ==
    [i \in 1..k |->
        [key |-> SeasonalKeys[i],
         series |-> IF i % 2 = 1 THEN YearsFrom(values) ELSE Tail(YearsFrom(values \o <<NaN>>))]]

AInit ==
    /\ pc = "a_start"
    /\ Idle
    /\ ret = NaN
    /\ \E n \in 0..MaxRows, k \in {0, 2, 4} :
         \E values \in [1..n -> SeasonalAlphabet] :
            arg = SeasonalMapping(k, values)

ClassifySeasons ==
    /\ pc = "a_start"
    /\ ret' = [classification |-> _classify_seasons(arg), economic_impact |-> <<>>]
    /\ pc' = "a_classified"
    /\ UNCHANGED <<trace, heap, heap0, data, quality_reports, calls, arg>>

EconomicImpact ==
    /\ pc = "a_classified"
    /\ ret' = [ret EXCEPT !.economic_impact = _calculate_economic_impact(ret.classification)]
    /\ pc' = "a_impact"
    /\ UNCHANGED <<trace, heap, heap0, data, quality_reports, calls, arg>>

ANext == ClassifySeasons \/ EconomicImpact

SpecAnalyze == AInit /\ [][ANext]_vars

\* the numerators of the values of a series that are numbers (whole numbers
\* in every series considered)
WholeValues(series) ==
    LET valid == SelectSeq(series, LAMBDA r : ~IsNull(r.value))
    IN  [i \in DOMAIN valid |-> Val(valid[i].value).num]

\* C19: every value of every seasonal series gets exactly one of Drought,
\* Excess Rain, Normal by the series' own mean m: Drought iff value < 0.8*m,
\* Excess Rain iff value > 1.2*m, Normal otherwise (values at 0.8*m or
\* 1.2*m are Normal); for a positive mean no value meets both conditions;
\* one label per input year.
C19_Classification ==
    pc = "a_classified" =>
        /\ Len(ret.classification) = Len(arg)
        /\ \A k \in DOMAIN arg :
              LET series == arg[k].series
                  labels == ret.classification[k].series
                  v == WholeValues(series)
                  n == Len(v)
                  S == SumSeq(v)
                  drought(x) == ~IsNull(x) /\ n > 0 /\ 10 * n * Val(x).num < 8 * S
                  excess(x)  == ~IsNull(x) /\ n > 0 /\ 10 * n * Val(x).num > 12 * S
              IN  /\ ret.classification[k].key = arg[k].key
                  /\ Len(labels) = Len(series)
                  /\ \A i \in DOMAIN series :
                        /\ ~IsNull(series[i].value) => Val(series[i].value).den = 1
                        /\ labels[i].year = series[i].year
                        /\ labels[i].status \in {"Drought", "Excess Rain", "Normal"}
                        /\ (labels[i].status = "Drought") = drought(series[i].value)
                        /\ (labels[i].status = "Excess Rain") = excess(series[i].value)
                        /\ S > 0 => ~(drought(series[i].value) /\ excess(series[i].value))

\* a series with values at 80% and at 120% of its mean was labelled Normal
\* throughout, another got all three labels
C19_Witness ==
    /\ pc = "a_classified"
    /\ Len(arg) = 4
    /\ \/ /\ [i \in DOMAIN arg[1].series |-> arg[1].series[i].value]
                = <<Some(Rat(8, 1)), Some(Rat(10, 1)), Some(Rat(12, 1))>>
          /\ \A i \in 1..3 : ret.classification[1].series[i].status = "Normal"
       \/ /\ [i \in DOMAIN arg[2].series |-> arg[2].series[i].value]
                = <<Some(Rat(0, 1)), Some(Rat(12, 1)), NaN>>
          /\ ret.classification[2].series[1].status = "Drought"
          /\ ret.classification[2].series[2].status = "Excess Rain"

\* an amount m * 10^e in units of 10^7
InCrore(x) == IF x.m = 0 THEN 0 ELSE x.m * (10 ^ (x.e - 7))

\* C20: exactly one row per (region-season series, year, crop), so the row
\* count is (#region-season-year combinations) * (#crops); a row's loss is
\* (impact% / 100) * area * yield * price with impact% -20 for Drought,
\* -10 for Excess Rain, 0 for Normal, a Normal row's loss exactly 0.
C20_EconomicImpact ==
    pc = "a_impact" =>
        LET rows == ret.economic_impact
            cls  == ret.classification
            crops == {"Soybean", "Cotton", "Wheat", "Gram", "Paddy"}
            name(k) == <<IF cls[k].key[1] = "mh" THEN "Maharashtra" ELSE "Madhya Pradesh",
                         IF cls[k].key[2] = "kharif" THEN "Kharif" ELSE "Rabi">>
            pct(s) == IF s = "Drought" THEN -20 ELSE IF s = "Excess Rain" THEN -10 ELSE 0
            info(c) == crop_info[CHOOSE j \in DOMAIN crop_info : crop_info[j].crop = c]
        IN  /\ Len(rows) = SumSeq([k \in DOMAIN cls |-> Len(cls[k].series)]) * 5
            /\ \A k \in DOMAIN cls : \A i \in DOMAIN cls[k].series : \A c \in crops :
                  Cardinality({j \in DOMAIN rows :
                                  /\ <<rows[j].Region, rows[j].Season>> = name(k)
                                  /\ rows[j].Year = cls[k].series[i].year
                                  /\ rows[j].Crop = c
                                  /\ rows[j].Status = cls[k].series[i].status}) = 1
            /\ \A j \in DOMAIN rows :
                  /\ rows[j].Crop \in crops
                  /\ rows[j].Estimated_Loss.m # 0 => rows[j].Estimated_Loss.e >= 7
                  /\ 100 * InCrore(rows[j].Estimated_Loss) =
                        pct(rows[j].Status) * (info(rows[j].Crop).area \div 100000)
                            * info(rows[j].Crop).yield * (info(rows[j].Crop).price \div 100)
                  /\ rows[j].Status = "Normal" => rows[j].Estimated_Loss = [m |-> 0, e |-> 0]

\* a Drought year and a Normal year of the same series produced five rows
\* each, the Drought rows with a loss, the Normal rows with none
C20_Witness ==
    /\ pc = "a_impact"
    /\ Len(ret.economic_impact) >= 20
    /\ \E i, j \in DOMAIN ret.economic_impact :
          /\ ret.economic_impact[i].Status = "Drought"
          /\ ret.economic_impact[i].Crop = "Soybean"
          /\ ret.economic_impact[i].Estimated_Loss = [m |-> -24, e |-> 9]
          /\ ret.economic_impact[j].Status = "Normal"
          /\ ret.economic_impact[j].Region = ret.economic_impact[i].Region
          /\ ret.economic_impact[j].Season = ret.economic_impact[i].Season
          /\ ret.economic_impact[j].Estimated_Loss = [m |-> 0, e |-> 0]

\* C29: a non-empty seasonal series of non-negative values with a positive
\* mean is never labelled Drought in all its years nor Excess Rain in all
\* its years; a series (of non-negative values) whose values are all equal
\* is labelled Normal in every year, and every crop row of its region and
\* season then has an estimated loss of zero.
C29_NeverAllExtreme ==
    (pc \in {"a_classified", "a_impact"}) =>
        \A k \in DOMAIN arg :
            LET series == arg[k].series
                labels == ret.classification[k].series
                v == WholeValues(series)
                positive == Len(v) > 0 /\ SumSeq(v) > 0 /\ \A i \in DOMAIN v : v[i] >= 0
                equal == \A i, j \in DOMAIN v : v[i] = v[j] /\ v[i] >= 0
                rows == SelectSeq(ret.economic_impact,
                                  LAMBDA r : /\ r.Region = RegionName(arg[k].key)
                                             /\ r.Season = SeasonName(arg[k].key))
            IN  /\ (series # <<>> /\ positive) =>
                      /\ \E i \in DOMAIN labels : labels[i].status # "Drought"
                      /\ \E i \in DOMAIN labels : labels[i].status # "Excess Rain"
                /\ equal =>
                      /\ \A i \in DOMAIN labels : labels[i].status = "Normal"
                      /\ pc = "a_impact" =>
                            /\ Len(rows) = 5 * Len(series)
                            /\ \A j \in DOMAIN rows : rows[j].Estimated_Loss = [m |-> 0, e |-> 0]

\* a series with a Drought year and Excess Rain years beside a series of
\* equal values that is Normal throughout and costs nothing
C29_Witness ==
    /\ pc = "a_impact"
    /\ Len(arg) = 4
    /\ WholeValues(arg[1].series) = <<0, 8, 8>>
    /\ [i \in 1..3 |-> ret.classification[1].series[i].status]
          = <<"Drought", "Excess Rain", "Excess Rain">>
    /\ WholeValues(arg[2].series) = <<8, 8>>
    /\ \A i \in 1..3 : ret.classification[2].series[i].status = "Normal"
    /\ Cardinality({j \in DOMAIN ret.economic_impact :
                       /\ ret.economic_impact[j].Region = "Maharashtra"
                       /\ ret.economic_impact[j].Season = "Rabi"
                       /\ ret.economic_impact[j].Estimated_Loss = [m |-> 0, e |-> 0]}) = 15

(***************************************************************************)
(* ClimateAnalyzer: resilience scores, infrastructure risk, crop stress    *)
(* and recommendations (analyzer.py).  A column is a sequence of cells, a  *)
(* cell a fraction or NaN; results are maps from a key to a cell.          *)
(***************************************************************************)
\* max(0, min(100, score)): Python's min and max return their first argument
\* unless the other one compares smaller (larger); NaN never does
ClampScore(score) ==
    LET capped == IF ~IsNull(score) /\ RLt(Val(score), RInt(100)) THEN score ELSE Some(RInt(100))
    IN  IF RLt(RInt(0), Val(capped)) THEN capped ELSE Some(RInt(0))

\* analyzer.py 48-60: 100 - variability * 50 - drought_frequency * 100
\*                        - anomaly * 10, NaN when one of them is
PenalisedScore(variability, drought, anomaly) ==
    IF IsNull(variability) \/ IsNull(drought) \/ IsNull(anomaly) THEN NaN
    ELSE Some(RSub(RSub(RSub(RInt(100), RMul(Val(variability), RInt(50))),
                        RMul(Val(drought), RInt(100))),
                   RMul(Val(anomaly), RInt(10))))

\* ['mh', 'mp'] of analyzer.py 47 and the region_mapping of 70-73, 122-125
analysis_regions == <<[short |-> "mh", full |-> <<"maharashtra">>],
                      [short |-> "mp", full |-> <<"madhya", "pradesh">>]>>

\* analyzer.py 42-64; a missing indicator raises KeyError
RECURSIVE ResilienceLoop(_, _, _)
ResilienceLoop(resilience_data, i, analysis) ==
    IF i > Len(analysis_regions) THEN [raised |-> FALSE, value |-> analysis]
    ELSE LET region == analysis_regions[i].short
             vk == <<region, "precip", "variability">>
             dk == <<region, "precip", "drought", "frequency">>
             tk == <<region, "temp", "anomaly">>
         IN  IF {vk, dk, tk} \subseteq DOMAIN resilience_data
             THEN ResilienceLoop(resilience_data, i + 1,
                      Put(analysis, <<region, "resilience", "score">>,
                          ClampScore(PenalisedScore(resilience_data[vk], resilience_data[dk],
                                                    resilience_data[tk]))))
             ELSE [raised |-> TRUE, value |-> EmptyMap]

_analyze_resilience(resilience_data) == ResilienceLoop(resilience_data, 1, EmptyMap)

\* the valid values of a column in ascending order
SortedRats(cells) ==
    LET valid == ValidCells(cells)
    IN  SortSeq([i \in DOMAIN valid |-> Val(valid[i])], LAMBDA a, b : RLt(a, b))

\* Series.quantile(0.95) on fractions: linear interpolation between the two
\* order statistics around position 0.95 * (n - 1); NaN without valid values
Quantile95(cells) ==
    LET s == SortedRats(cells)
        n == Len(s)
    IN  IF n = 0 THEN NaN
        ELSE LET pos == 19 * (n - 1)
                 lo  == (pos \div 20) + 1
                 hi  == IF lo < n THEN lo + 1 ELSE n
             IN  Some(RAdd(s[lo], RMul(RSub(s[hi], s[lo]), Rat(pos % 20, 20))))

\* the share of the entries at or above the threshold
ExtremeFreqAtOrAbove(cells, threshold) ==
    IF cells = <<>> THEN NaN
    ELSE Some(Rat(Cardinality({i \in DOMAIN cells :
                                  /\ ~IsNull(threshold)
                                  /\ ~IsNull(cells[i])
                                  /\ ~RLt(Val(cells[i]), Val(threshold))}), Len(cells)))

\* (series > threshold).mean(): the mean of a boolean column over all its
\* entries, a comparison with NaN False, the mean of no entries NaN
ExtremeFreq(cells, threshold) ==
    IF cells = <<>> THEN NaN
    ELSE Some(Rat(Cardinality({i \in DOMAIN cells :
                                  /\ ~IsNull(threshold)
                                  /\ ~IsNull(cells[i])
                                  /\ RLt(Val(threshold), Val(cells[i]))}), Len(cells)))

\* analyzer.py 93-95: min(100, risk_score * 100), 100 for a NaN risk score
RiskScore(rain_freq, temp_freq) ==
    IF IsNull(rain_freq) \/ IsNull(temp_freq) THEN Some(RInt(100))
    ELSE LET risk_score == RAdd(RMul(Val(rain_freq), RInt(50)), RMul(Val(temp_freq), RInt(50)))
             scaled == RMul(risk_score, RInt(100))
         IN  IF RLt(scaled, RInt(100)) THEN Some(scaled) ELSE Some(RInt(100))

\* precip_data['rainfall_mm'], temp_data['mean']: the value column of a
\* monthly frame
MonthlyColumn(frame) == [i \in DOMAIN frame |-> frame[i].value]

\* analyzer.py 66-97; a missing monthly frame raises KeyError
RECURSIVE InfrastructureLoop(_, _, _)
InfrastructureLoop(monthly, i, assessment) ==
    IF i > Len(analysis_regions) THEN [raised |-> FALSE, value |-> assessment]
    ELSE LET full == analysis_regions[i].full
             pk == full \o <<"precipitation", "monthly">>
             tk == full \o <<"temperature", "monthly">>
         IN  IF pk \notin DOMAIN monthly \/ tk \notin DOMAIN monthly
             THEN [raised |-> TRUE, value |-> EmptyMap]
             ELSE LET precip_rainfall == MonthlyColumn(monthly[pk])
                      temp_mean == MonthlyColumn(monthly[tk])
                      extreme_rain_freq == ExtremeFreq(precip_rainfall, Quantile95(precip_rainfall))
                      extreme_temp_freq == ExtremeFreq(temp_mean, Quantile95(temp_mean))
                  IN  InfrastructureLoop(monthly, i + 1,
                          Put(assessment, <<analysis_regions[i].short, "infrastructure", "risk">>,
                              RiskScore(extreme_rain_freq, extreme_temp_freq)))

_assess_infrastructure(d) == InfrastructureLoop(d.monthly, 1, EmptyMap)

\* analyzer.py 105-111: a comparison with NaN is False, so fillna(False)
\* changes nothing and a day without a value is a stress day
Stressed(row) ==
    LET optimal_temp == ~IsNull(row.mean) /\ Val(row.mean) >= 20 /\ Val(row.mean) <= 30
        adequate_rain == ~IsNull(row.rainfall_mm) /\ Val(row.rainfall_mm) >= 5
    IN  ~optimal_temp \/ ~adequate_rain

\* float(stress_days.mean() * 100): NaN for a table without rows
StressPercentage(rows) ==
    IF rows = <<>> THEN NaN
    ELSE Some(Rat(100 * Cardinality({i \in DOMAIN rows : Stressed(rows[i])}), Len(rows)))

\* analyzer.py 99-116: one entry f"{region_season}_stress" per crop table
_analyze_crops(crop_data) ==
    LET of(k) == CHOOSE key \in DOMAIN crop_data : Suffixed(key, "stress") = k
    IN  [k \in {Suffixed(key, "stress") : key \in DOMAIN crop_data} |->
            StressPercentage(crop_data[of(k)])]

resilience_recs == <<"Implement drought-resistant crop varieties",
                     "Develop water conservation infrastructure">>

infrastructure_recs == <<"Strengthen weather monitoring systems",
                         "Improve drainage infrastructure">>

crop_recs == <<"Consider shifting kharif sowing dates",
               "Implement soil moisture conservation practices">>

\* the three gates with their limits 50, 70 and 30 included
RegionRecsInclusive(resilience_score, infra_risk, kharif_stress) ==
    (IF ~IsNull(resilience_score) /\ ~RLt(RInt(50), Val(resilience_score))
     THEN resilience_recs ELSE <<>>)
    \o (IF ~IsNull(infra_risk) /\ ~RLt(Val(infra_risk), RInt(70))
        THEN infrastructure_recs ELSE <<>>)
    \o (IF ~IsNull(kharif_stress) /\ ~RLt(Val(kharif_stress), RInt(30))
        THEN crop_recs ELSE <<>>)

\* analyzer.py 128-146: the list of one region; a comparison with NaN is
\* False
RegionRecs(resilience_score, infra_risk, kharif_stress) ==
    (IF ~IsNull(resilience_score) /\ RLt(Val(resilience_score), RInt(50))
     THEN resilience_recs ELSE <<>>)
    \o (IF ~IsNull(infra_risk) /\ RLt(RInt(70), Val(infra_risk))
        THEN infrastructure_recs ELSE <<>>)
    \o (IF ~IsNull(kharif_stress) /\ RLt(RInt(30), Val(kharif_stress))
        THEN crop_recs ELSE <<>>)

\* analyzer.py 118-150; a missing result raises KeyError
RECURSIVE RecommendationLoop(_, _, _)
RecommendationLoop(results, i, recommendations) ==
    IF i > Len(analysis_regions) THEN [raised |-> FALSE, value |-> recommendations]
    ELSE LET short == analysis_regions[i].short
             rk == <<short, "resilience", "score">>
             ik == <<short, "infrastructure", "risk">>
             ck == analysis_regions[i].full \o <<"kharif", "stress">>
         IN  IF \/ rk \notin DOMAIN results.resilience
                \/ ik \notin DOMAIN results.infrastructure
                \/ ck \notin DOMAIN results.crop_analysis
             THEN [raised |-> TRUE, value |-> EmptyMap]
             ELSE RecommendationLoop(results, i + 1,
                      Put(recommendations, short,
                          RegionRecs(results.resilience[rk], results.infrastructure[ik],
                                     results.crop_analysis[ck])))

_generate_recommendations(results) == RecommendationLoop(results, 1, EmptyMap)

(***************************************************************************)
(* analyze, lines 29-38, applied to transformed data (SpecAssess): the     *)
(* resilience scores, the infrastructure risk, the crop stress and the     *)
(* recommendations, in the order of the calls.                             *)
(***************************************************************************)
\* monthly means: none, and three levels
MonthlyAlphabet == {NaN, Some(RInt(1)), Some(RInt(2)), Some(Rat(5, 2))}

\* a column of n entries of which the last c are high
LongColumn(n, c) == [i \in 1..n |-> IF i <= n - c THEN Some(RInt(10)) ELSE Some(RInt(40))]

\* lengths on both sides of 50 entries, ten years and some forty years of months
LongLens == {50, 51, 120, 500}

ExtremeCounts == {0, 1, 2, 3, 4, 7}

\* a monthly frame of consecutive months holding the column
MonthlyFrame(cells) ==
    [i \in DOMAIN cells |-> [date |-> Some(MonthEnd(FirstMonth + i - 1)), value |-> cells[i]]]

\* the second region has the same rainfall and an even temperature
MonthlyMap(rain, temp) ==
    [k \in {Suffixed(key, "monthly") : key \in Range(PipelineKeys)} |->
        IF k = <<"maharashtra", "precipitation", "monthly">> THEN MonthlyFrame(rain)
        ELSE IF k = <<"maharashtra", "temperature", "monthly">> THEN MonthlyFrame(temp)
        ELSE IF k = <<"madhya", "pradesh", "precipitation", "monthly">> THEN MonthlyFrame(rain)
        ELSE MonthlyFrame(<<Some(RInt(25)), Some(RInt(25))>>)]

\* the temperature columns tried with a rainfall column
TempColumns(rain) ==
    {rain, <<>>, <<Some(RInt(25)), Some(RInt(25))>>, LongColumn(120, 1)}

\* indicator triples (variability, drought frequency, anomaly) giving the
\* scores 100, 50, 49, 0 and the score of a NaN
IndicatorTriples ==
    {<<Some(RInt(0)), Some(RInt(0)), Some(RInt(0))>>,
     <<Some(RInt(1)), Some(RInt(0)), Some(RInt(0))>>,
     <<Some(Rat(1, 2)), Some(Rat(1, 4)), Some(Rat(1, 10))>>,
     <<Some(RInt(3)), Some(RInt(0)), Some(RInt(0))>>,
     <<NaN, Some(RInt(0)), Some(RInt(0))>>}

\* the indicators the transformer writes for the regions named
IndicatorMap(regions, mh, mp) ==
    [k \in UNION {{<<r, "precip", "variability">>, <<r, "precip", "drought", "frequency">>,
                   <<r, "temp", "anomaly">>} : r \in regions} |->
        LET t == IF k[1] = "mh" THEN mh ELSE mp
        IN  IF k[3] = "variability" THEN t[1] ELSE IF k[3] = "drought" THEN t[2] ELSE t[3]]

\* days of a crop table: at and beside the limits 20, 30 and 5, and without
\* a value
CropDays ==
    {[mean |-> Some(20), rainfall_mm |-> Some(5)],
     [mean |-> Some(30), rainfall_mm |-> Some(5)],
     [mean |-> Some(19), rainfall_mm |-> Some(5)],
     [mean |-> Some(31), rainfall_mm |-> Some(5)],
     [mean |-> Some(25), rainfall_mm |-> Some(4)],
     [mean |-> NaN,      rainfall_mm |-> Some(5)],
     [mean |-> Some(25), rainfall_mm |-> NaN]}

CropTable(days) ==
    [i \in DOMAIN days |->
        [date |-> Some(Date(BaseYear, 6, i)), rainfall_mm |-> days[i].rainfall_mm,
         mean |-> days[i].mean]]

\* the Kharif table of the first region given, the other tables fixed
CropMap(days) ==
    [k \in {<<"maharashtra", "kharif">>, <<"maharashtra", "rabi">>,
            <<"madhya", "pradesh", "kharif">>, <<"madhya", "pradesh", "rabi">>} |->
        IF k = <<"maharashtra", "kharif">> THEN CropTable(days)
        ELSE IF k = <<"maharashtra", "rabi">> THEN CropTable(Tail(days \o <<CHOOSE d \in CropDays : TRUE>>))
        ELSE CropTable(<<[mean |-> Some(25), rainfall_mm |-> Some(5)],
                         [mean |-> Some(35), rainfall_mm |-> Some(5)]>>)]

DefaultMonthly == MonthlyMap(<<Some(RInt(1)), Some(RInt(1))>>, <<Some(RInt(25)), Some(RInt(25))>>)

DefaultIndicators ==
    IndicatorMap({"mh", "mp"}, <<Some(RInt(0)), Some(RInt(0)), Some(RInt(0))>>,
                 <<Some(RInt(1)), Some(RInt(0)), Some(RInt(0))>>)

DefaultCrop == CropMap(<<[mean |-> Some(25), rainfall_mm |-> Some(5)]>>)

AssessInput(monthly, resilience, crop) ==
    [monthly |-> monthly, resilience |-> resilience, crop |-> crop]

XInit ==
    /\ pc = "x_start"
    /\ Idle
    /\ ret = NaN
    /\ \/ \E n \in 0..MaxRows :
            \E rain \in [1..n -> MonthlyAlphabet] :
               \E temp \in TempColumns(rain) :
                  arg = AssessInput(MonthlyMap(rain, temp), DefaultIndicators, DefaultCrop)
       \/ \E n \in LongLens, c \in ExtremeCounts :
            \E temp \in TempColumns(LongColumn(n, c)) :
               arg = AssessInput(MonthlyMap(LongColumn(n, c), temp), DefaultIndicators, DefaultCrop)
       \/ \E n \in 0..MaxRows :
            \E days \in [1..n -> CropDays] :
               arg = AssessInput(DefaultMonthly, DefaultIndicators, CropMap(days))
       \/ \E n \in 0..MaxRows :
            \E dates \in [1..n -> CalendarAlphabet] :
               /\ \A i \in 1..(n - 1) : DateLeq(dates[i], dates[i + 1])
               /\ \E temp \in TempFrames(dates) :
                     arg = AssessInput(DefaultMonthly, DefaultIndicators,
                               _transform_crop_data(
                                   Mapping(PipelineKeys,
                                           Frame("rainfall_mm", dates, [i \in DOMAIN dates |-> 5]),
                                           temp)).value)
       \/ \E mh \in IndicatorTriples, mp \in IndicatorTriples, regions \in {{"mh"}, {"mh", "mp"}} :
            arg = AssessInput(DefaultMonthly, IndicatorMap(regions, mh, mp), DefaultCrop)
       \/ \E keys \in {TestKeys} :
            arg = AssessInput(_calculate_monthly_aggregates(
                                  Mapping(keys, Frame("rainfall_mm", <<Date(BaseYear, 6, 1)>>, <<5>>),
                                          Frame("mean", <<Date(BaseYear, 6, 1)>>, <<25>>))),
                              DefaultIndicators, DefaultCrop)

NoResults ==
    [resilience |-> EmptyMap, infrastructure |-> EmptyMap, crop_analysis |-> EmptyMap,
     recommendations |-> EmptyMap]

\* one call of analyze: its result is stored, or the exception leaves analyze
Step(from, to, field, outcome) ==
    /\ pc = from
    /\ IF outcome.raised
       THEN /\ pc' = "x_raised"
            /\ ret' = [raised |-> TRUE, results |-> NoResults]
       ELSE /\ pc' = to
            /\ ret' = [raised |-> FALSE,
                       results |-> [(IF from = "x_start" THEN NoResults ELSE ret.results)
                                        EXCEPT ![field] = outcome.value]]
    /\ UNCHANGED <<trace, heap, heap0, data, quality_reports, calls, arg>>

\* analyzer.py 29
AnalyzeResilience ==
    Step("x_start", "x_resilience", "resilience", _analyze_resilience(arg.resilience))

\* analyzer.py 32
AssessInfrastructure ==
    Step("x_resilience", "x_infrastructure", "infrastructure", _assess_infrastructure(arg))

\* analyzer.py 35
AnalyzeCrops ==
    Step("x_infrastructure", "x_crops", "crop_analysis", Ok(_analyze_crops(arg.crop)))

\* analyzer.py 38
GenerateRecommendations ==
    Step("x_crops", "x_done", "recommendations", _generate_recommendations(ret.results))

XNext == AnalyzeResilience \/ AssessInfrastructure \/ AnalyzeCrops \/ GenerateRecommendations

SpecAssess == XInit /\ [][XNext]_vars

\* the column of a region's monthly frame of the given kind
RegionColumn(i, kind) == MonthlyColumn(arg.monthly[analysis_regions[i].full \o <<kind, "monthly">>])

\* the number of entries of a column above the column's 95th percentile
CountAbove95(col) ==
    Cardinality({j \in DOMAIN col :
                    ~IsNull(col[j]) /\ RLt(Val(Quantile95(col)), Val(col[j]))})

\* C21: for each region the infrastructure risk equals
\* min(100, (rainFreq * 50 + tempFreq * 50) * 100), rainFreq and tempFreq the
\* fractions of the region's monthly rainfall and temperature entries that
\* strictly exceed the series' own 95th percentile (the min is 100 when a
\* series has no entry and the fraction is 0/0); the result lies in [0,100]
\* for every input series.
C21_InfrastructureRisk ==
    (pc \in {"x_infrastructure", "x_crops", "x_done"}) =>
        \A i \in DOMAIN analysis_regions :
            LET rain == RegionColumn(i, "precipitation")
                temp == RegionColumn(i, "temperature")
                risk == ret.results.infrastructure[<<analysis_regions[i].short,
                                                     "infrastructure", "risk">>]
                den  == Len(rain) * Len(temp)
                num  == (CountAbove95(rain) * 50 * Len(temp)
                            + CountAbove95(temp) * 50 * Len(rain)) * 100
            IN  /\ ~IsNull(risk)
                /\ Val(risk).den > 0
                /\ 0 <= Val(risk).num
                /\ Val(risk).num <= 100 * Val(risk).den
                /\ den = 0 => risk = Some(RInt(100))
                /\ (den > 0 /\ num >= 100 * den) => risk = Some(RInt(100))
                /\ (den > 0 /\ num < 100 * den) => Val(risk).num * den = num * Val(risk).den

\* a region with more than 50 months of which one is above the percentile
\* has a risk strictly between 0 and 100, the other region a risk of 100
C21_Witness ==
    /\ pc = "x_infrastructure"
    /\ Len(RegionColumn(1, "precipitation")) = 51
    /\ CountAbove95(RegionColumn(1, "precipitation")) = 1
    /\ ret.results.infrastructure[<<"mh", "infrastructure", "risk">>] = Some(Rat(5000, 51))
    /\ Len(RegionColumn(1, "temperature")) = 2

\* C22: in _analyze_crops a day is stressed iff its temperature is outside
\* [20,30] or its rainfall is below 5 mm (days at exactly 20, 30 or 5 are
\* not stressed, a day with a missing value is); the stress value of each
\* region-season table is 100 * (stressed days / total days) and lies in
\* [0,100].
C22_CropStress ==
    (pc \in {"x_crops", "x_done"}) =>
        \A key \in DOMAIN arg.crop :
            LET rows == arg.crop[key]
                stress == ret.results.crop_analysis[Append(key, "stress")]
                stressed(r) == \/ IsNull(r.mean)
                               \/ IsNull(r.rainfall_mm)
                               \/ Val(r.mean) < 20
                               \/ Val(r.mean) > 30
                               \/ Val(r.rainfall_mm) < 5
                count == Cardinality({j \in DOMAIN rows : stressed(rows[j])})
            IN  /\ ~IsNull(stress)
                /\ Val(stress).num * Len(rows) = 100 * count * Val(stress).den
                /\ 0 <= Val(stress).num
                /\ Val(stress).num <= 100 * Val(stress).den

\* C30: for a region whose monthly rainfall and temperature series each have
\* at most 50 entries and no missing value, the risk is exactly 0 when no
\* value of either series exceeds that series' 95th percentile and exactly
\* 100 otherwise, and the 'infrastructure risk > 70' recommendations are
\* issued iff some monthly value of either series exceeds its percentile.
C30_RiskSaturates ==
    pc = "x_done" =>
        \A i \in DOMAIN analysis_regions :
            LET rain == RegionColumn(i, "precipitation")
                temp == RegionColumn(i, "temperature")
                short == analysis_regions[i].short
                risk == ret.results.infrastructure[<<short, "infrastructure", "risk">>]
                recs == ret.results.recommendations[short]
                exceeds == CountAbove95(rain) > 0 \/ CountAbove95(temp) > 0
                issued == \A s \in Range(infrastructure_recs) : s \in Range(recs)
            IN  (/\ Len(rain) <= 50
                 /\ Len(temp) <= 50
                 /\ \A j \in DOMAIN rain : ~IsNull(rain[j])
                 /\ \A j \in DOMAIN temp : ~IsNull(temp[j]))
                => /\ risk = (IF exceeds THEN Some(RInt(100)) ELSE Some(RInt(0)))
                   /\ issued <=> exceeds

(***************************************************************************)
(* _generate_recommendations applied to results around its three limits    *)
(* (SpecRecommend)                                                         *)
(***************************************************************************)
\* resilience scores, infrastructure risks and stress values below, at and
\* above the limits 50, 70 and 30; a stress value may be NaN
ScoreLevels == {Some(RInt(49)), Some(RInt(50)), Some(RInt(100))}

RiskLevels == {Some(RInt(0)), Some(RInt(70)), Some(Rat(141, 2))}

StressLevels == {NaN, Some(RInt(30)), Some(Rat(91, 3))}

RabiLevels == {Some(RInt(0)), Some(RInt(100))}

RegionLevels == [score : ScoreLevels, risk : RiskLevels, kharif : StressLevels, rabi : RabiLevels]

\* the results of the three analyses for the regions named
ResultsFor(regions, level) ==
    [resilience |->
        [k \in {<<analysis_regions[i].short, "resilience", "score">> : i \in regions} |->
            level[k[1]].score],
     infrastructure |->
        [k \in {<<analysis_regions[i].short, "infrastructure", "risk">> : i \in regions} |->
            level[k[1]].risk],
     crop_analysis |->
        [k \in UNION {{analysis_regions[i].full \o <<"kharif", "stress">>,
                       analysis_regions[i].full \o <<"rabi", "stress">>} : i \in regions} |->
            LET l == level[IF k[1] = "maharashtra" THEN "mh" ELSE "mp"]
            IN  IF k[Len(k) - 1] = "kharif" THEN l.kharif ELSE l.rabi],
     recommendations |-> EmptyMap]

GInit ==
    /\ pc = "x_crops"
    /\ Idle
    /\ arg = NaN
    /\ \E level \in [{"mh", "mp"} -> RegionLevels], regions \in {{1}, {1, 2}} :
          /\ regions = {1} => level["mp"] = level["mh"]
          /\ ret = [raised |-> FALSE, results |-> ResultsFor(regions, level)]

SpecRecommend == GInit /\ [][GenerateRecommendations]_vars

all_recs == resilience_recs \o infrastructure_recs \o crop_recs

\* C23: _generate_recommendations returns a list for exactly the regions
\* 'mh' and 'mp'; a list holds the two drought-variety/water-conservation
\* strings iff the region's resilience score < 50, the two
\* monitoring/drainage strings iff its infrastructure risk > 70, the two
\* sowing-date/soil-moisture strings iff its Kharif stress > 30, in that
\* order and nothing else; 50, 70 and 30 trigger nothing; Rabi stress and
\* the other region's results have no influence.
C23_Recommendations ==
    pc = "x_done" =>
        /\ DOMAIN ret.results.recommendations = {"mh", "mp"}
        /\ \A i \in DOMAIN analysis_regions :
              LET short == analysis_regions[i].short
                  recs  == ret.results.recommendations[short]
                  score == ret.results.resilience[<<short, "resilience", "score">>]
                  risk  == ret.results.infrastructure[<<short, "infrastructure", "risk">>]
                  kharif == ret.results.crop_analysis[analysis_regions[i].full
                                                         \o <<"kharif", "stress">>]
                  has(pair) == \A s \in Range(pair) : s \in Range(recs)
                  none(pair) == \A s \in Range(pair) : s \notin Range(recs)
                  low   == ~IsNull(score) /\ Val(score).num < 50 * Val(score).den
                  risky == ~IsNull(risk) /\ Val(risk).num > 70 * Val(risk).den
                  dry   == ~IsNull(kharif) /\ Val(kharif).num > 30 * Val(kharif).den
              IN  /\ IF low THEN has(resilience_recs) ELSE none(resilience_recs)
                  /\ IF risky THEN has(infrastructure_recs) ELSE none(infrastructure_recs)
                  /\ IF dry THEN has(crop_recs) ELSE none(crop_recs)
                  /\ recs = SelectSeq(all_recs, LAMBDA s : s \in Range(recs))

\* one region at the three limits got an empty list while the other, just
\* beyond them, got all six strings
C23_Witness ==
    /\ pc = "x_done"
    /\ ret.results.resilience[<<"mh", "resilience", "score">>] = Some(RInt(50))
    /\ ret.results.infrastructure[<<"mh", "infrastructure", "risk">>] = Some(RInt(70))
    /\ ret.results.crop_analysis[<<"maharashtra", "kharif", "stress">>] = Some(RInt(30))
    /\ ret.results.crop_analysis[<<"maharashtra", "rabi", "stress">>] = Some(RInt(100))
    /\ ret.results.recommendations["mh"] = <<>>
    /\ ret.results.resilience[<<"mp", "resilience", "score">>] = Some(RInt(49))
    /\ ret.results.recommendations["mp"] = all_recs

(***************************************************************************)
(* DataLoader on the text of the four files (data_loader.py).  A file is   *)
(* absent, not readable as CSV, or the sequence of its records; a date     *)
(* field is empty (NaN) or the three numbers written in it, a value field  *)
(* a number or some other text.                                            *)
(***************************************************************************)
\* the date field names a day of the calendar
IsCalendarDay(text) ==
    /\ Val(text).m \in 1..12
    /\ Val(text).d \in 1..DaysInMonth(Val(text).y, Val(text).m)

\* pd.to_datetime on the date column (data_loader.py 51): NaT for an empty
\* field, the day for a date, an exception for anything else
DateParses(records) ==
    \A i \in DOMAIN records : IsNull(records[i].date) \/ IsCalendarDay(records[i].date)

to_datetime(text) ==
    IF IsNull(text) THEN NaN ELSE Some(Date(Val(text).y, Val(text).m, Val(text).d))

\* pd.to_numeric(errors='coerce') (data_loader.py 57, 59)
to_numeric(text) == IF text.kind = "number" THEN Some(text.value) ELSE NaN

\* the dtype of a date column left as read_csv delivers it
TextDType == "object_str"

\* the dtype of the column pd.to_datetime returns
ParsedDType == "datetime64"

\* data_loader.py 47-66: one row per record
read_table(i, records) ==
    MakeTable(FileColumn(i), ParsedDType,
              [j \in DOMAIN records |-> to_datetime(records[j].date)],
              [j \in DOMAIN records |-> to_numeric(records[j].value)])

\* data_loader.py 39-69: the table of file i, or why it cannot be loaded
_load_csv(i, file) ==
    IF ~file.exists
    THEN [status |-> "missing", table |-> MakeTable(FileColumn(i), ParsedDType, <<>>, <<>>)]
    ELSE IF ~file.csv
    THEN [status |-> "malformed", table |-> MakeTable(FileColumn(i), ParsedDType, <<>>, <<>>)]
    ELSE IF ~DateParses(file.records)
    THEN [status |-> "bad_date", table |-> MakeTable(FileColumn(i), ParsedDType, <<>>, <<>>)]
    ELSE [status |-> "ok", table |-> read_table(i, file.records)]

\* the message without the name of the file
LoadMessageNoFile(filename, status) ==
    <<"Error loading data", "Error loading">>
    \o (IF status = "missing" THEN <<"Data file not found">>
        ELSE IF status = "bad_date" THEN <<"Error converting date column in">>
        ELSE <<"read_csv">>)

\* the text of the error load_all raises: the prefix of line 37, the prefix
\* and the file name of line 69, then the cause (lines 44, 53 or read_csv's)
LoadMessage(filename, status) ==
    <<"Error loading data", "Error loading", filename>>
    \o (IF status = "missing" THEN <<"Data file not found", filename>>
        ELSE IF status = "bad_date" THEN <<"Error converting date column in", filename>>
        ELSE <<"read_csv">>)

(***************************************************************************)
(* load_all applied to four files (SpecLoad)                               *)
(***************************************************************************)
DateTexts ==
    {NaN, Some([y |-> BaseYear, m |-> 1, d |-> 1]), Some([y |-> BaseYear, m |-> 2, d |-> 29]),
     Some([y |-> BaseYear, m |-> 2, d |-> 30])}

ValueTexts == {[kind |-> "number", value |-> 10], [kind |-> "text", value |-> 0]}

Records(dates, values) == [j \in DOMAIN dates |-> [date |-> dates[j], value |-> values[j]]]

CsvFile(records) == [exists |-> TRUE, csv |-> TRUE, records |-> records]

\* a file that is absent, one that is no CSV, one with a date that does not
\* exist and one with a single good record
OtherFiles ==
    {[exists |-> FALSE, csv |-> FALSE, records |-> <<>>],
     [exists |-> TRUE, csv |-> FALSE, records |-> <<>>],
     CsvFile(Records(<<Some([y |-> BaseYear, m |-> 13, d |-> 1])>>, <<[kind |-> "number", value |-> 10]>>)),
     CsvFile(Records(<<Some([y |-> BaseYear, m |-> 1, d |-> 1])>>, <<[kind |-> "number", value |-> 10]>>))}

LInit ==
    /\ pc = "l_start"
    /\ Idle
    /\ ret = NaN
    /\ \/ \E n \in 0..MaxRows, other \in OtherFiles :
            \E dates \in [1..n -> DateTexts], values \in [1..n -> ValueTexts] :
               arg = <<CsvFile(Records(dates, values)), other, other, other>>
       \/ \E f1 \in OtherFiles, f2 \in OtherFiles, f3 \in OtherFiles, f4 \in OtherFiles :
            arg = <<f1, f2, f3, f4>>

\* loader.load_all(): the mapping under the four keys, or the error
LoadAll ==
    /\ pc = "l_start"
    /\ LET files == [i \in DOMAIN arg |-> _load_csv(i, arg[i])]
           r == load_all(files)
       IN  IF r.raised
           THEN /\ pc' = "l_raised"
                /\ ret' = [raised |-> TRUE,
                           message |-> LoadMessage(r.file, files[FirstUnreadable(files)].status)]
                /\ UNCHANGED <<heap, data>>
           ELSE /\ pc' = "l_loaded"
                /\ ret' = [raised |-> FALSE, message |-> <<>>]
                /\ heap' = r.tables
                /\ data' = [k \in Range(KeyOrder) |-> CHOOSE i \in 1..4 : KeyOrder[i] = k]
    /\ UNCHANGED <<trace, heap0, quality_reports, calls, arg>>

SpecLoad == LInit /\ [][LoadAll]_vars

\* file i of the input cannot be loaded
Offending(i) == ~arg[i].exists \/ ~arg[i].csv \/ ~DateParses(arg[i].records)

\* C24: load_all either returns a mapping with exactly the four keys
\* maharashtra_precipitation, maharashtra_temperature,
\* madhya_pradesh_precipitation, madhya_pradesh_temperature, or, if any one
\* file is missing, malformed or has an unparseable date column, raises an
\* error whose message names the offending file, and returns no partial
\* mapping.
C24_AllOrNothing ==
    /\ pc = "l_loaded" =>
          /\ ~ret.raised
          /\ \A i \in DOMAIN arg : ~Offending(i)
          /\ DOMAIN data = {"maharashtra_precipitation", "maharashtra_temperature",
                            "madhya_pradesh_precipitation", "madhya_pradesh_temperature"}
          /\ \A i \in 1..4 : heap[data[KeyOrder[i]]].col = FileColumn(i)
    /\ pc = "l_raised" =>
          /\ ret.raised
          /\ data = EmptyMap
          /\ heap = <<>>
          /\ \E i \in DOMAIN arg : Offending(i) /\ FileOrder[i] \in Range(ret.message)
    /\ (pc # "l_start" /\ \E i \in DOMAIN arg : Offending(i)) => pc = "l_raised"

\* the second file is absent, the others are good: the error names it and
\* nothing is returned
C24_Witness ==
    /\ pc = "l_raised"
    /\ ~arg[2].exists
    /\ \A i \in {1, 3, 4} : ~Offending(i)
    /\ "MH_temperature.csv" \in Range(ret.message)
    /\ data = EmptyMap

\* C25: every table returned by _load_csv has as many rows as the file has
\* records and a date column of date/time type, so every loaded table passes
\* the validator's data_types check, whose status is true iff the date
\* column is a date/time type, not string.
C25_LoadedTypes ==
    pc = "l_loaded" =>
        \A i \in 1..4 :
            LET t == heap[data[KeyOrder[i]]]
            IN  /\ Len(t.rows) = Len(arg[i].records)
                /\ t.dtype = "datetime64"
                /\ _check_data_types(t).status
                /\ \A dt \in DTypes :
                      _check_data_types([t EXCEPT !.dtype = dt]).status = (dt = "datetime64")
                /\ \A j \in DOMAIN t.rows :
                      /\ IsNull(t.rows[j].date) = IsNull(arg[i].records[j].date)
                      /\ IsNull(t.rows[j].value) = (arg[i].records[j].value.kind # "number")

\* a file of three records, one without a date and one with text for a
\* value, was loaded as three rows
C25_Witness ==
    /\ pc = "l_loaded"
    /\ Len(arg[1].records) = 3
    /\ IsNull(arg[1].records[2].date)
    /\ arg[1].records[3].value.kind = "text"
    /\ Len(heap[data["maharashtra_precipitation"]].rows) = 3
    /\ _check_data_types(heap[data["maharashtra_precipitation"]]).status

(***************************************************************************)
(* Error handling of ClimateDataPipeline.run (Spec)                        *)
(***************************************************************************)
\* C26: no stage swallows errors: whenever a computation inside the load,
\* validate, transform or analyze stage raises, the stage's entry point and
\* ClimateDataPipeline.run end by raising an error that carries the stage;
\* none of them returns normally after an internal error.
C26_NoStageSwallows ==
    /\ \A i \in DOMAIN StageOrder :
          Raise(StageOrder[i]) \in Range(trace) =>
              /\ pc = "raised"
              /\ ret.raised
              /\ ret.stage = StageOrder[i]
    /\ (\E k \in DOMAIN quality_reports : quality_reports[k].validation_status = "ERROR")
          => ~ReturnedFrom("validate")

(***************************************************************************)
(* DataTransformer.transform as one call on the caller's mapping           *)
(* (transformer.py 7-37).  The tables of the mapping are the caller's      *)
(* objects: what the call writes into them stays written.                  *)
(***************************************************************************)
\* pd.to_datetime(df['date']) accepts the column: every date is NaT or a
\* calendar day
DatesConvert(t) ==
    \A i \in DOMAIN t.rows : IsNull(t.rows[i].date) \/ IsCalendarDay(t.rows[i].date)

\* transformer.py 125-126: a date column that is not datetime64 is replaced,
\* in the caller's table, by its conversion
EnsureDatetime(t) ==
    IF t.dtype = "datetime64" THEN t ELSE [t EXCEPT !.dtype = "datetime64"]

\* the loop of transformer.py 123-136 over the first n items: the number of
\* items handled before a conversion raises
RECURSIVE ConvertedItems(_, _)
ConvertedItems(d, i) ==
    IF i > Len(d) THEN Len(d)
    ELSE IF d[i].df.dtype # "datetime64" /\ ~DatesConvert(d[i].df) THEN i - 1
    ELSE ConvertedItems(d, i + 1)

\* the mapping as the monthly aggregation leaves it
AfterMonthly(d) ==
    [i \in DOMAIN d |->
        IF i <= ConvertedItems(d, 1)
        THEN [key |-> d[i].key, df |-> EnsureDatetime(d[i].df)]
        ELSE d[i]]

\* transformer.py 7-37: the four collections, or the exception; data is the
\* caller's mapping after the call
transform(d) ==
    LET after == AfterMonthly(d)
        indicators == _calculate_resilience_indicators(after)
        crop == _transform_crop_data(after)
        nothing == [monthly |-> EmptyMap, seasonal |-> EmptyMap, resilience |-> EmptyMap,
                    crop |-> EmptyMap]
    IN  IF d = <<>> THEN [raised |-> TRUE, value |-> nothing, data |-> d]
        ELSE IF ConvertedItems(d, 1) < Len(d) \/ indicators.raised \/ crop.raised
        THEN [raised |-> TRUE, value |-> nothing, data |-> after]
        ELSE [raised |-> FALSE,
              value |-> [monthly |-> _calculate_monthly_aggregates(after),
                         seasonal |-> _calculate_seasonal_aggregates(after),
                         resilience |-> indicators.value,
                         crop |-> crop.value],
              data |-> after]

(***************************************************************************)
(* transform called on a mapping, then on an equal mapping (SpecPure)      *)
(***************************************************************************)
\* the table with its date column left as the text of the dates
AsText(t) == [t EXCEPT !.dtype = "object_str"]

\* a date text that names no day
NoDay == Some([y |-> BaseYear, m |-> 2, d |-> 30])

PInit ==
    /\ pc = "p_start"
    /\ trace = <<>>
    /\ heap = <<>>
    /\ heap0 = <<>>
    /\ quality_reports = EmptyMap
    /\ calls = <<>>
    /\ ret = NaN
    /\ \/ arg = <<>>
       \/ \E keys \in KeySets, n \in 0..MaxRows, text \in SUBSET {"rain", "temp"} :
            \E dates \in [1..n -> CalendarAlphabet] :
               /\ keys = PipelineKeys \/ n <= 1
               /\ \A i \in 1..(n - 1) : DateLeq(dates[i], dates[i + 1])
               /\ \E temp \in TempFrames(dates) :
                     LET rain == Frame("rainfall_mm", dates,
                                       [i \in DOMAIN dates |-> IF i % 2 = 1 THEN 5 ELSE 20])
                     IN  arg = Mapping(keys,
                                       IF "rain" \in text THEN AsText(rain) ELSE rain,
                                       IF "temp" \in text THEN AsText(temp) ELSE temp)
       \/ \E bad \in 1..2 :
            LET rain == Frame("rainfall_mm", <<Date(BaseYear, 6, 1)>>, <<5>>)
                temp == AsText(MakeTable("mean", "object_str",
                                         <<IF bad = 1 THEN NoDay ELSE Some(Date(BaseYear, 6, 1))>>,
                                         <<Some(25)>>))
            IN  arg = Mapping(PipelineKeys, AsText(rain), temp)
    /\ data = arg

\* transformer.transform(arg): arg is the caller's mapping, data a snapshot
\* of it taken before the call
TransformCall ==
    /\ pc = "p_start"
    /\ LET r == transform(arg)
       IN  /\ arg' = r.data
           /\ ret' = [raised |-> r.raised, value |-> r.value]
           /\ calls' = Append(calls, [input |-> arg, raised |-> r.raised, value |-> r.value])
    /\ pc' = "p_once"
    /\ UNCHANGED <<trace, heap, heap0, data, quality_reports>>

\* a second call, on a mapping equal to the first input
TransformEqual ==
    /\ pc = "p_once"
    /\ LET r == transform(data)
       IN  /\ ret' = [raised |-> r.raised, value |-> r.value]
           /\ calls' = Append(calls, [input |-> data, raised |-> r.raised, value |-> r.value])
    /\ pc' = "p_twice"
    /\ UNCHANGED <<trace, heap, heap0, data, quality_reports, arg>>

PNext == TransformCall \/ TransformEqual

SpecPure == PInit /\ [][PNext]_vars

\* C27: transform is a pure, deterministic function of its input: for every
\* input mapping, tables whose date column is not yet of date/time type
\* included, it leaves the mapping and every input table unchanged (no
\* column added, replaced or converted), and two calls on equal inputs
\* return equal monthly, seasonal, resilience and crop results.
C27_TransformPure ==
    /\ (pc \in {"p_once", "p_twice"}) => arg = data
    /\ \A i, j \in DOMAIN calls :
          calls[i].input = calls[j].input =>
              /\ calls[i].raised = calls[j].raised
              /\ calls[i].value = calls[j].value

(***************************************************************************)
(* One DataValidator, validate_data called on one mapping and then on      *)
(* another (SpecReports): quality_reports is the attribute set in          *)
(* __init__ (validator.py 9) and returned by every call (line 61).         *)
(***************************************************************************)
\* a mapping holding table number id of the heap under the i-th key
OneKey(i, id) == [k \in {KeyOrder[i]} |-> id]

QInit ==
    /\ pc = "v_start"
    /\ trace = <<>>
    /\ \/ heap = <<>> /\ data = EmptyMap
       \/ \E i \in 1..4 :
            \E t \in FileTables(FileColumn(i)) :
               /\ heap = <<t>>
               /\ data = OneKey(i, 1)
    /\ heap0 = heap
    /\ quality_reports = EmptyMap
    /\ calls = <<>>
    /\ arg = NaN
    /\ ret = NaN

\* the caller builds another mapping for the same validator
OtherMapping ==
    /\ pc = "v_once"
    /\ \E i \in 1..4 :
         \E t \in FileTables(FileColumn(i)) :
            /\ heap' = Append(heap, t)
            /\ data' = OneKey(i, Len(heap) + 1)
    /\ pc' = "v_other"
    /\ UNCHANGED <<trace, heap0, quality_reports, calls, arg, ret>>

\* validate_data on the other mapping
ValidateOther ==
    /\ pc = "v_other"
    /\ validate_data(Len(KeysOf(data)))
    /\ pc' = "v_twice"
    /\ UNCHANGED <<trace, heap0, arg, ret>>

QNext == ValidateData \/ ValidateEmpty \/ OtherMapping \/ ValidateOther

SpecReports == QInit /\ [][QNext]_vars

\* C28: after any sequence of validate_data calls on one DataValidator, the
\* mapping returned by the latest call holds reports for exactly the dataset
\* keys of that call's input; no report of an earlier call for a key absent
\* from the latest input is in it.
C28_ReportsFreshPerCall ==
    \A i \in DOMAIN calls :
        calls[i].result = "returned" => DOMAIN calls[i].reports = DOMAIN calls[i].input

====
